---- MODULE Spec2Model ----
(***************************************************************************)
(* ShadowBar relay broker (src/shadowbar/relay_server.py) as a state       *)
(* machine.  One task per control connection (announce_endpoint), one per  *)
(* dispatch connection (input_endpoint) and the sweeper                    *)
(* (cleanup_stale_agents) share the two dictionaries `agents` and          *)
(* `pending_inputs`.  Tasks are cooperative: a task runs from one `await`  *)
(* to the next without interruption, so every action below is the code     *)
(* between two suspension points.  A `send_json` is two steps: the task    *)
(* suspends in the send, and later the send completes (the frame is        *)
(* delivered, or the send raises because the socket is closed).            *)
(* SpecTimed adds one serving agent (relay.serve_loop, Agent.serve) and a  *)
(* clock on which the sweeper's and the agent's timers fire on time.       *)
(* SpecCall puts the library's calling client (connect.RemoteAgent) on the *)
(* dispatch side; SpecLookup, SpecRouting and SpecPending follow the       *)
(* registry's order, the forwarded INPUTs and the pending table; SpecKeys, *)
(* SpecVerify and SpecClient run address.py and the client on their own.   *)
(***************************************************************************)
EXTENDS Integers, Sequences, FiniteSets, TLC

\* ------------------------------------------------------------------ bounds
MaxTime == 400          \* the clock stops at or after this time
Quantum == 200           \* seconds per clock step
MaxConns == 3           \* connections accepted in one run, both endpoints
MaxTimedConns == 2      \* the same, in a run in which the clock advances
MaxFrames == 1          \* ERROR frames answered per control connection
FineQuantum == 30       \* seconds per step of the fine clock
MaxFineTime == 180      \* the fine clock stops at or after this time
MaxFineCtl == 1         \* control connections accepted under the fine clock
MaxFineIn == 1          \* dispatch connections accepted under the fine clock

\* ------------------------------------------------------- program constants
timeout == 300          \* input_endpoint: request deadline, seconds
stale_threshold == 120  \* cleanup_stale_agents: eviction threshold, seconds
sweep_period == 30      \* cleanup_stale_agents: asyncio.sleep(30)
heartbeat_interval == 60 \* relay.serve_loop: heartbeat_interval default
call_timeout == 30      \* connect.RemoteAgent.input: timeout default
find_limit == 10        \* lookup_endpoint, FIND: matching_agents[:10]

\* --------------------------------------------------------- small universes
CtlConns == {"c1", "c2"}          \* websockets on /ws/announce
InConns  == {"d1", "d2"}          \* websockets on /ws/input
\* connections are named in their order of arrival
Earlier(x) == IF x \in {"c2"} THEN {"c1"} ELSE IF x \in {"d2"} THEN {"d1"} ELSE {}
Keys     == {"K1", "K2"}          \* Ed25519 keys, one token = 64 hex chars
InputIds == {"i1", "i2"}
Summaries == {"echo"}
NoAddr == <<>>                    \* None / "" (both falsy in the code)
NoId == ""                        \* None / "" input_id, to, prompt
\* An address is a string, modelled as a sequence of tokens so that the
\* "0x" prefix test and slice of verify_signature are computed, not assumed.
Addr0x(k) == <<"0", "x", k>>
AddrBare(k) == <<k>>
Addrs == {Addr0x("K1"), Addr0x("K2")}
BadHexAddr == AddrBare("ZZ")      \* not hexadecimal: bytes.fromhex raises

VARIABLES
    now,             \* time.time()
    agents,          \* dict address -> RegisteredAgent
    pending_inputs,  \* dict input_id -> {"websocket", "timestamp"}
    ctl_pc,          \* control task position
    ctl_open,        \* control websocket can still carry frames
    agent_address,   \* announce_endpoint local variable
    ctl_local,       \* announce_endpoint locals across the forward await
    ctl_rx,          \* ERROR frames the broker delivered to a control connection
    in_pc,           \* dispatch task position
    in_open,         \* dispatch websocket can still carry frames
    in_local,        \* input_endpoint locals; `forwarded` records that the
                     \* INPUT frame was delivered to websocket `agent_ws`
    in_rx,           \* frames the broker delivered to a dispatch connection
    sweep_at,        \* when the sweeper's sleep ends
    agents_order,    \* the keys of `agents` in the dict's iteration order,
                     \* kept where lookups are served (SpecLookup)
    agent_rx,        \* INPUT frames the broker delivered to a control
                     \* connection, kept where routing is followed
                     \* (SpecRouting)
    srv,             \* the serving agent's client loop (relay.serve_loop)
    call,            \* the calling clients (connect.RemoteAgent._send_task)
    keys             \* the .sb/keys directories and the identity in memory

vars == <<now, agents, pending_inputs, ctl_pc, ctl_open, agent_address,
          ctl_local, ctl_rx, in_pc, in_open, in_local, in_rx, sweep_at,
          agents_order, agent_rx, srv, call, keys>>

\* the broker's own state: everything but the client loop
broker_vars == <<now, agents, pending_inputs, ctl_pc, ctl_open, agent_address,
                 ctl_local, ctl_rx, in_pc, in_open, in_local, in_rx, sweep_at>>
\* what the broker's handlers for /ws/announce and /ws/input and the sweeper
\* neither read nor write
outside_vars == <<agents_order, agent_rx, srv, call, keys>>
ctl_vars == <<ctl_pc, ctl_open, agent_address, ctl_local, ctl_rx>>
in_vars == <<in_pc, in_open, in_local, in_rx>>

\* ------------------------------------------------------------ dict helpers
Put(f, k, v) == [x \in DOMAIN f \cup {k} |-> IF x = k THEN v ELSE f[x]]
Remove(f, k) == [x \in DOMAIN f \ {k} |-> f[x]]
EmptyDict == [x \in {} |-> 0]
Min(a, b) == IF a <= b THEN a ELSE b

\* A Python dict iterates in insertion order: a deleted key leaves the
\* order, a new key goes to the end, an assignment to a key that is present
\* keeps the key's position.
DictOrder(order, dict) ==
    LET kept == SelectSeq(order, LAMBDA k : k \in DOMAIN dict)
        new == DOMAIN dict \ { order[i] : i \in 1..Len(order) }
    IN  IF new = {} THEN kept ELSE Append(kept, CHOOSE k \in new : TRUE)
\* a step that writes `agents` moves its iteration order along
Ordered == agents_order' = DictOrder(agents_order, agents')

\* ------------------------------------------------- signature verification
\* An Ed25519 signature is the pair (signing key, signed bytes): it verifies
\* under a public key and a message exactly when both match.
Sign(k, body) == [key |-> k, body |-> body]
NoSig == [key |-> "", body |-> [type |-> "NONE"]]

StartsWith0x(s) == Len(s) >= 2 /\ s[1] = "0" /\ s[2] = "x"
StripPrefix(s) == IF StartsWith0x(s) THEN SubSeq(s, 3, Len(s)) ELSE s
\* bytes.fromhex + VerifyKey: 32 bytes of hexadecimal
IsKeyHex(s) == Len(s) = 1 /\ s[1] \in Keys

MessageToVerify(message) ==
    [f \in DOMAIN message \ {"signature"} |-> message[f]]

\* as verify_signature, but the signature is checked against the key that
\* made it, not against the key in the address
verify_signature_any_key(message) ==
    /\ message.signature # NoSig
    /\ message.address # NoAddr
    /\ message.signature.body = MessageToVerify(message)

verify_signature(message) ==
    LET signature_hex == message.signature
        address == message.address
    IN  IF signature_hex = NoSig \/ address = NoAddr THEN FALSE
        ELSE LET public_key_hex == StripPrefix(address) IN
             /\ IsKeyHex(public_key_hex)
             /\ signature_hex.key = public_key_hex[1]
             /\ signature_hex.body = MessageToVerify(message)

\* --------------------------------------------------------------- messages
AnnounceBody(a, s) ==
    [type |-> "ANNOUNCE", address |-> a, timestamp |-> now, summary |-> s]
WithSignature(body, sig) ==
    [f \in DOMAIN body \cup {"signature"} |->
        IF f = "signature" THEN sig ELSE body[f]]
\* ANNOUNCE frames a peer can send: any address, signed by any key it may
\* hold over the frame's own fields or over other fields, or unsigned.
SignaturesFor(body) ==
    {NoSig} \cup { Sign(k, body) : k \in Keys }
            \cup { Sign(k, [body EXCEPT !.summary = "other"]) : k \in Keys }
AnnounceFrames ==
    UNION { { WithSignature(AnnounceBody(a, s), sig) :
                sig \in SignaturesFor(AnnounceBody(a, s)) } :
            a \in Addrs \cup {NoAddr, BadHexAddr}, s \in Summaries }

\* the ANNOUNCE frames signed with the key of their own address over their
\* own fields
AuthenticFrames ==
    { WithSignature(AnnounceBody(a, s), Sign(a[3], AnnounceBody(a, s))) :
        a \in Addrs, s \in Summaries }

OutputFrames ==
    { [type |-> "OUTPUT", input_id |-> i, result |-> "r"] :
        i \in InputIds \cup {NoId} }

\* The callers' identifiers are named in their order of first use.
IdsOf(d) == IF d = "d1" THEN {"i1"} ELSE InputIds
InputFrames(d) ==
    { [type |-> t, input_id |-> i, to |-> a, prompt |-> p] :
        t \in {"INPUT", "LOOKUP"}, i \in IdsOf(d) \cup {NoId},
        a \in Addrs \cup {NoAddr}, p \in {"hi", NoId} }

\* HEARTBEAT frames a peer can send, with any address field or none
HeartbeatFrames ==
    { [type |-> "HEARTBEAT", address |-> a] : a \in Addrs \cup {NoAddr} }

ErrorFrame(e) == [type |-> "ERROR", error |-> e, input_id |-> NoId, via |-> ""]

\* ------------------------------------------------------------------- Init
NoCtlLocal == [input_id |-> NoId, client_ws |-> "", result |-> ""]
NoInLocal == [input_id |-> NoId, prompt |-> NoId, agent_ws |-> "",
              start_time |-> 0, error |-> "",
              forwarded |-> FALSE]
\* no agent process is serving
NoTask == [type |-> "NONE"]
NoServe == [pc |-> "off", ws |-> "", announce_message |-> [type |-> "NONE"],
            wait_since |-> 0, last_heartbeat |-> 0, task |-> NoTask,
            received |-> <<>>, sent |-> <<>>]

\* no call is under way
NoCall == [pc |-> "off", input_id |-> NoId, to |-> NoAddr, sent_at |-> 0,
           outcome |-> [kind |-> "none"]]
\* .sb directories; in each, keys/agent.key (its bytes in blocks of 16),
\* keys/recovery.txt (its text, "" when there is none) and keys/DO_NOT_SHARE
Dirs == {"a", "b"}
Missing == [exists |-> FALSE, bytes |-> <<>>, recovery |-> "", warning |-> FALSE]
\* Python's None, and a variable not assigned yet
None == [kind |-> "None"]
Unset == [kind |-> "unset"]
\* no key file anywhere, no identity in memory; pynacl and mnemonic present
NoKeys == [installed |-> TRUE, file |-> [dir \in Dirs |-> Missing],
           generated |-> Unset, loaded |-> Unset, recovered |-> Unset,
           verified |-> Unset, serving |-> Unset]

Init ==
    /\ now = 0
    /\ agents = EmptyDict
    /\ pending_inputs = EmptyDict
    /\ ctl_pc = [c \in CtlConns |-> "new"]
    /\ ctl_open = [c \in CtlConns |-> FALSE]
    /\ agent_address = [c \in CtlConns |-> NoAddr]
    /\ ctl_local = [c \in CtlConns |-> NoCtlLocal]
    /\ ctl_rx = [c \in CtlConns |-> <<>>]
    /\ in_pc = [d \in InConns |-> "new"]
    /\ in_open = [d \in InConns |-> FALSE]
    /\ in_local = [d \in InConns |-> NoInLocal]
    /\ in_rx = [d \in InConns |-> <<>>]
    /\ sweep_at = sweep_period
    /\ agents_order = <<>>
    /\ agent_rx = [c \in CtlConns |-> <<>>]
    /\ srv = NoServe
    /\ call = [d \in InConns |-> NoCall]
    /\ keys = NoKeys

\* connections accepted so far
Accepted ==
    Cardinality({c \in CtlConns : ctl_pc[c] # "new"})
    + Cardinality({d \in InConns : in_pc[d] # "new"})

MayAccept ==
    /\ Accepted < MaxConns
    /\ now = 0 \/ Accepted < MaxTimedConns

\* ------------------------------------------------------- control endpoint
\* RegisteredAgent(...); `signature` is history: the signature that came
\* with the ANNOUNCE that wrote the record (the dataclass does not keep it).
RegisteredAgent(message, websocket) ==
    [address |-> message.address, summary |-> message.summary,
     websocket |-> websocket, last_announce |-> now, last_heartbeat |-> now,
     signature |-> message.signature]

\* frames on a control connection's receive log
CtlFrame(t, i, e) == [type |-> t, input_id |-> i, error |-> e]

\* announce_endpoint, `finally`: remove agent from registry
AgentsAfterFinally(c) ==
    IF agent_address[c] # NoAddr /\ agent_address[c] \in DOMAIN agents
    THEN Remove(agents, agent_address[c])
    ELSE agents

\* The handler leaves its loop (disconnect or exception), runs `finally`
\* and returns, its locals are gone; the server then closes the websocket.
CtlExit(c) ==
    /\ agents' = AgentsAfterFinally(c)
    /\ ctl_pc' = [ctl_pc EXCEPT ![c] = "done"]
    /\ ctl_open' = [ctl_open EXCEPT ![c] = FALSE]
    /\ agent_address' = [agent_address EXCEPT ![c] = NoAddr]
    /\ ctl_local' = [ctl_local EXCEPT ![c] = NoCtlLocal]

\* await websocket.accept()
CtlAccept(c) ==
    /\ ctl_pc[c] = "new"
    /\ \A e \in Earlier(c) : ctl_pc[e] # "new"
    /\ MayAccept
    /\ ctl_pc' = [ctl_pc EXCEPT ![c] = "recv"]
    /\ ctl_open' = [ctl_open EXCEPT ![c] = TRUE]
    /\ UNCHANGED <<now, agents, pending_inputs, agent_address, ctl_local,
                   ctl_rx, in_vars, sweep_at>>

\* The peer (or the network) closes the control connection.
CtlPeerClose(c) ==
    /\ ctl_open[c]
    /\ ctl_open' = [ctl_open EXCEPT ![c] = FALSE]
    /\ UNCHANGED <<now, agents, pending_inputs, ctl_pc, agent_address,
                   ctl_local, ctl_rx, in_vars, sweep_at>>

\* receive_text() raises WebSocketDisconnect
CtlRecvDisconnect(c) ==
    /\ ctl_pc[c] = "recv"
    /\ ~ctl_open[c]
    /\ CtlExit(c)
    /\ UNCHANGED <<now, pending_inputs, ctl_rx, in_vars, sweep_at>>

\* json.loads raises, or the JSON value is no object: `except Exception`
CtlRecvMalformed(c) ==
    /\ ctl_pc[c] = "recv"
    /\ ctl_open[c]
    /\ CtlExit(c)
    /\ UNCHANGED <<now, pending_inputs, ctl_rx, in_vars, sweep_at>>

\* msg_type == "ANNOUNCE"
CtlRecvAnnounce(c, message) ==
    /\ ctl_pc[c] = "recv"
    /\ ctl_open[c]
    /\ IF ~verify_signature(message)
       THEN /\ Len(ctl_rx[c]) < MaxFrames
            /\ ctl_pc' = [ctl_pc EXCEPT ![c] = "sendError"]
            /\ UNCHANGED <<agents, agent_address>>
       ELSE /\ agent_address' = [agent_address EXCEPT ![c] = message.address]
            /\ agents' = Put(agents, message.address,
                             RegisteredAgent(message, c))
            /\ UNCHANGED ctl_pc
    /\ UNCHANGED <<now, pending_inputs, ctl_open, ctl_local, ctl_rx,
                   in_vars, sweep_at>>

\* as CtlSendErrorDone, but the loop is left after the ERROR (`break`
\* where the code has `continue`)
CtlSendErrorClose(c) ==
    /\ ctl_pc[c] = "sendError"
    /\ ctl_rx' = IF ctl_open[c]
                 THEN [ctl_rx EXCEPT
                    ![c] = Append(@, CtlFrame("ERROR", NoId, "Invalid signature"))]
                 ELSE ctl_rx
    /\ CtlExit(c)
    /\ UNCHANGED <<now, pending_inputs, in_vars, sweep_at>>

\* the `await websocket.send_json(ERROR)` of the ANNOUNCE branch completes
CtlSendErrorDone(c) ==
    /\ ctl_pc[c] = "sendError"
    /\ IF ctl_open[c]
       THEN /\ ctl_rx' = [ctl_rx EXCEPT
                    ![c] = Append(@, CtlFrame("ERROR", NoId, "Invalid signature"))]
            /\ ctl_pc' = [ctl_pc EXCEPT ![c] = "recv"]
            /\ UNCHANGED <<agents, ctl_open, agent_address, ctl_local>>
       ELSE /\ CtlExit(c)
            /\ UNCHANGED ctl_rx
    /\ UNCHANGED <<now, pending_inputs, in_vars, sweep_at>>

\* pending_inputs[input_id]["websocket"]
ClientWsAny(input_id) ==
    pending_inputs[CHOOSE i \in DOMAIN pending_inputs : TRUE].websocket
ClientWs(input_id) == pending_inputs[input_id].websocket

\* as CtlRecvOutput, but an OUTPUT whose input_id is not pending is
\* forwarded to the caller of some pending request
CtlRecvOutputFallback(c, message) ==
    /\ ctl_pc[c] = "recv"
    /\ ctl_open[c]
    /\ IF pending_inputs # EmptyDict
       THEN LET i == IF message.input_id \in DOMAIN pending_inputs
                     THEN message.input_id
                     ELSE CHOOSE x \in DOMAIN pending_inputs : TRUE
            IN  /\ ctl_pc' = [ctl_pc EXCEPT ![c] = "forward"]
                /\ ctl_local' = [ctl_local EXCEPT ![c] =
                        [input_id |-> i, client_ws |-> pending_inputs[i].websocket,
                         result |-> message.result]]
       ELSE UNCHANGED <<ctl_pc, ctl_local>>
    /\ UNCHANGED <<now, agents, pending_inputs, ctl_open, agent_address,
                   ctl_rx, in_vars, sweep_at>>

\* msg_type == "OUTPUT": look the input_id up, suspend in the forward
CtlRecvOutput(c, message) ==
    /\ ctl_pc[c] = "recv"
    /\ ctl_open[c]
    /\ IF message.input_id \in DOMAIN pending_inputs
       THEN /\ ctl_pc' = [ctl_pc EXCEPT ![c] = "forward"]
            /\ ctl_local' = [ctl_local EXCEPT ![c] =
                    [input_id |-> message.input_id,
                     client_ws |-> ClientWs(message.input_id),
                     result |-> message.result]]
       ELSE UNCHANGED <<ctl_pc, ctl_local>>
    /\ UNCHANGED <<now, agents, pending_inputs, ctl_open, agent_address,
                   ctl_rx, in_vars, sweep_at>>

\* frames on a dispatch connection's receive log; `via` records the control
\* connection an OUTPUT came from (history, not on the wire)
OutputFrame(message, c) ==
    [type |-> "OUTPUT", error |-> "", input_id |-> message.input_id,
     result |-> message.result, via |-> c]

\* `await client_ws.send_json(message)` completes or raises (caught), then
\* `finally: del pending_inputs[input_id]`, which raises KeyError when the
\* entry went away during the await: that leaves the loop.
CtlForwardDone(c) ==
    LET input_id == ctl_local[c].input_id
        client_ws == ctl_local[c].client_ws
    IN
    /\ ctl_pc[c] = "forward"
    /\ in_rx' = IF in_open[client_ws]
                THEN [in_rx EXCEPT ![client_ws] = Append(@, OutputFrame(ctl_local[c], c))]
                ELSE in_rx
    /\ IF input_id \in DOMAIN pending_inputs
       THEN /\ pending_inputs' = Remove(pending_inputs, input_id)
            /\ ctl_pc' = [ctl_pc EXCEPT ![c] = "recv"]
            /\ ctl_local' = [ctl_local EXCEPT ![c] = NoCtlLocal]
            /\ UNCHANGED <<agents, ctl_open, agent_address>>
       ELSE /\ CtlExit(c)
            /\ UNCHANGED pending_inputs
    /\ UNCHANGED <<now, ctl_rx, in_pc, in_open, in_local, sweep_at>>

\* msg_type == "HEARTBEAT"
CtlRecvHeartbeat(c, message) ==
    /\ ctl_pc[c] = "recv"
    /\ ctl_open[c]
    /\ agents' = IF agent_address[c] # NoAddr /\ agent_address[c] \in DOMAIN agents
                 THEN [agents EXCEPT ![agent_address[c]].last_heartbeat = now]
                 ELSE agents
    /\ UNCHANGED <<now, pending_inputs, ctl_vars, in_vars, sweep_at>>

\* any other msg_type: no branch matches, the loop reads the next frame
CtlRecvOther(c) ==
    /\ ctl_pc[c] = "recv"
    /\ ctl_open[c]
    /\ UNCHANGED broker_vars

\* ------------------------------------------------------ dispatch endpoint
\* The handler returns, its locals are gone; the server then closes the
\* websocket.
InReturn(d) ==
    /\ in_pc' = [in_pc EXCEPT ![d] = "done"]
    /\ in_open' = [in_open EXCEPT ![d] = FALSE]
    /\ in_local' = [in_local EXCEPT ![d] = NoInLocal]

\* await websocket.accept()
InAccept(d) ==
    /\ in_pc[d] = "new"
    /\ \A e \in Earlier(d) : in_pc[e] # "new"
    /\ MayAccept
    /\ in_pc' = [in_pc EXCEPT ![d] = "recv"]
    /\ in_open' = [in_open EXCEPT ![d] = TRUE]
    /\ UNCHANGED <<now, agents, pending_inputs, ctl_vars, in_local, in_rx,
                   sweep_at>>

\* The caller (or the network) closes the dispatch connection.
InPeerClose(d) ==
    /\ in_open[d]
    /\ in_open' = [in_open EXCEPT ![d] = FALSE]
    /\ UNCHANGED <<now, agents, pending_inputs, ctl_vars, in_pc, in_local,
                   in_rx, sweep_at>>

\* receive_text() raises WebSocketDisconnect: logged, the handler returns
InRecvDisconnect(d) ==
    /\ in_pc[d] = "recv"
    /\ ~in_open[d]
    /\ InReturn(d)
    /\ UNCHANGED <<now, agents, pending_inputs, ctl_vars, in_rx, sweep_at>>

\* the handler suspends in `await websocket.send_json(ERROR ...)`
InSuspendError(d, e) ==
    /\ in_pc' = [in_pc EXCEPT ![d] = "sendError"]
    /\ in_local' = [in_local EXCEPT ![d].error = e]

\* as AgentWebsocket, but the handle of some registered agent
AgentWebsocketAny(target_address) ==
    agents[CHOOSE a \in DOMAIN agents : TRUE].websocket
\* agent = agents[target_address]; agent.websocket
AgentWebsocket(target_address) == agents[target_address].websocket

\* pending_inputs[input_id] = {"websocket": websocket, "timestamp": time.time()}
StorePending(input_id, websocket) ==
    Put(pending_inputs, input_id, [websocket |-> websocket, timestamp |-> now])

\* as InRecv, but the pending entry is stored before the registry is asked
\* for the target
InRecvStoreFirst(d, message) ==
    /\ in_pc[d] = "recv"
    /\ in_open[d]
    /\ IF message.type # "INPUT"
       THEN /\ InSuspendError(d, "Expected INPUT message")
            /\ UNCHANGED pending_inputs
       ELSE IF message.input_id = NoId \/ message.to = NoAddr
               \/ message.prompt = NoId
       THEN /\ InSuspendError(d, "Missing required fields")
            /\ UNCHANGED pending_inputs
       ELSE IF message.to \notin DOMAIN agents
       THEN /\ InSuspendError(d, "Agent not found or offline")
            /\ pending_inputs' = StorePending(message.input_id, d)
       ELSE /\ pending_inputs' = StorePending(message.input_id, d)
            /\ in_pc' = [in_pc EXCEPT ![d] = "forward"]
            /\ in_local' = [in_local EXCEPT ![d].input_id = message.input_id,
                                ![d].prompt = message.prompt,
                                ![d].agent_ws = AgentWebsocket(message.to)]
    /\ UNCHANGED <<now, agents, ctl_vars, in_open, in_rx, sweep_at>>

\* the first frame arrives: checks, pending insert, suspend in the forward
InRecv(d, message) ==
    /\ in_pc[d] = "recv"
    /\ in_open[d]
    /\ IF message.type # "INPUT"
       THEN /\ InSuspendError(d, "Expected INPUT message")
            /\ UNCHANGED pending_inputs
       ELSE IF message.input_id = NoId \/ message.to = NoAddr
               \/ message.prompt = NoId
       THEN /\ InSuspendError(d, "Missing required fields")
            /\ UNCHANGED pending_inputs
       ELSE IF message.to \notin DOMAIN agents
       THEN /\ InSuspendError(d, "Agent not found or offline")
            /\ UNCHANGED pending_inputs
       ELSE /\ pending_inputs' = StorePending(message.input_id, d)
            /\ in_pc' = [in_pc EXCEPT ![d] = "forward"]
            /\ in_local' = [in_local EXCEPT ![d].input_id = message.input_id,
                                ![d].prompt = message.prompt,
                                ![d].agent_ws = AgentWebsocket(message.to)]
    /\ UNCHANGED <<now, agents, ctl_vars, in_open, in_rx, sweep_at>>

\* json.loads raises, or the JSON value is no object: `except Exception`
\* sends ERROR str(e)
InRecvMalformed(d) ==
    /\ in_pc[d] = "recv"
    /\ in_open[d]
    /\ in_pc' = [in_pc EXCEPT ![d] = "sendError"]
    /\ in_local' = [in_local EXCEPT ![d].error = "exception"]
    /\ UNCHANGED <<now, agents, pending_inputs, ctl_vars, in_open, in_rx,
                   sweep_at>>

\* `except Exception as e: del pending_inputs[input_id]` of the forward
PendingKept(input_id) == pending_inputs
PendingAfterForwardFailure(input_id) == Remove(pending_inputs, input_id)

\* `await agent.websocket.send_json(INPUT)` completes, then start_time is
\* taken and the poll loop's first test runs; or the send raises, then
\* `del pending_inputs[input_id]` (KeyError when the entry went away during
\* the await: the outer handler sends ERROR str(e)) and ERROR is sent.
InForwardDone(d) ==
    LET input_id == in_local[d].input_id
        agent_ws == in_local[d].agent_ws
    IN
    /\ in_pc[d] = "forward"
    /\ IF ctl_open[agent_ws]
       THEN /\ IF input_id \in DOMAIN pending_inputs
               THEN /\ in_pc' = [in_pc EXCEPT ![d] = "poll"]
                    /\ in_local' = [in_local EXCEPT ![d].start_time = now,
                                                    ![d].forwarded = TRUE]
                    /\ UNCHANGED in_open
               ELSE InReturn(d)
            /\ UNCHANGED pending_inputs
       ELSE /\ in_pc' = [in_pc EXCEPT ![d] = "sendError"]
            /\ IF input_id \in DOMAIN pending_inputs
               THEN /\ pending_inputs' = PendingAfterForwardFailure(input_id)
                    /\ in_local' = [in_local EXCEPT ![d].error = "Failed to reach agent"]
               ELSE /\ in_local' = [in_local EXCEPT ![d].error = "exception"]
                    /\ UNCHANGED pending_inputs
            /\ UNCHANGED in_open
    /\ UNCHANGED <<now, agents, ctl_vars, in_rx, sweep_at>>

\* `del pending_inputs[input_id]` of the deadline branch
PendingLeft(input_id) == pending_inputs
PendingAfterDeadline(input_id) == Remove(pending_inputs, input_id)

\* as DeadlinePassed, with the sweeper's threshold in place of the deadline
DeadlinePassedEarly(d) == now - in_local[d].start_time > stale_threshold
\* as DeadlinePassed, but only for a caller that is still connected
DeadlinePassedConnected(d) ==
    in_open[d] /\ now - in_local[d].start_time > timeout
\* time.time() - start_time > timeout
DeadlinePassed(d) == now - in_local[d].start_time > timeout

\* one turn of `while input_id in pending_inputs:` after asyncio.sleep(0.1)
InPoll(d) ==
    LET input_id == in_local[d].input_id IN
    /\ in_pc[d] = "poll"
    /\ IF input_id \notin DOMAIN pending_inputs
       THEN /\ InReturn(d)
            /\ UNCHANGED pending_inputs
       ELSE IF DeadlinePassed(d)
       THEN /\ pending_inputs' = PendingAfterDeadline(input_id)
            /\ in_pc' = [in_pc EXCEPT ![d] = "sendError"]
            /\ in_local' = [in_local EXCEPT ![d].error = "Request timed out"]
            /\ UNCHANGED in_open
       ELSE UNCHANGED <<pending_inputs, in_pc, in_local, in_open>>
    /\ UNCHANGED <<now, agents, ctl_vars, in_rx, sweep_at>>

\* `await websocket.send_json(ERROR)` completes and the handler returns; when
\* it raises, the outer handler's own send raises too and is passed over.
InSendErrorDone(d) ==
    /\ in_pc[d] = "sendError"
    /\ in_rx' = IF in_open[d]
                THEN [in_rx EXCEPT ![d] = Append(@, ErrorFrame(in_local[d].error))]
                ELSE in_rx
    /\ InReturn(d)
    /\ UNCHANGED <<now, agents, pending_inputs, ctl_vars, sweep_at>>

\* ---------------------------------------------------------------- sweeper
\* as IsStale, but with the sweeper's period added to the threshold
IsStaleLate(agent) ==
    now - agent.last_announce > stale_threshold + sweep_period
\* now - agent.last_announce > stale_threshold
IsStale(agent) == now - agent.last_announce > stale_threshold

\* one pass of cleanup_stale_agents after its asyncio.sleep(30)
cleanup_stale_agents ==
    /\ now >= sweep_at
    /\ agents' = [a \in {x \in DOMAIN agents : ~IsStale(agents[x])} |-> agents[a]]
    /\ sweep_at' = now + sweep_period
    /\ UNCHANGED <<now, pending_inputs, ctl_vars, in_vars>>

\* ------------------------------------------------------------------ clock
Tick ==
    /\ now < MaxTime
    /\ Accepted <= MaxTimedConns
    /\ now' = now + Quantum
    /\ UNCHANGED <<agents, pending_inputs, ctl_vars, in_vars, sweep_at>>

\* ---------------------------------------------------------- specification
Next ==
    \/ (\E c \in CtlConns : CtlAccept(c)) /\ UNCHANGED outside_vars
    \/ (\E c \in CtlConns : CtlPeerClose(c)) /\ UNCHANGED outside_vars
    \/ (\E c \in CtlConns : CtlRecvDisconnect(c)) /\ UNCHANGED outside_vars
    \/ (\E c \in CtlConns : CtlRecvMalformed(c)) /\ UNCHANGED outside_vars
    \/ (\E c \in CtlConns : \E m \in AnnounceFrames : CtlRecvAnnounce(c, m)) /\ UNCHANGED outside_vars
    \/ (\E c \in CtlConns : CtlSendErrorDone(c)) /\ UNCHANGED outside_vars
    \/ (\E c \in CtlConns : \E m \in OutputFrames : CtlRecvOutput(c, m)) /\ UNCHANGED outside_vars
    \/ (\E c \in CtlConns : CtlForwardDone(c)) /\ UNCHANGED outside_vars
    \/ (\E c \in CtlConns : \E m \in HeartbeatFrames : CtlRecvHeartbeat(c, m)) /\ UNCHANGED outside_vars
    \/ (\E c \in CtlConns : CtlRecvOther(c)) /\ UNCHANGED outside_vars
    \/ (\E d \in InConns : InAccept(d)) /\ UNCHANGED outside_vars
    \/ (\E d \in InConns : InPeerClose(d)) /\ UNCHANGED outside_vars
    \/ (\E d \in InConns : InRecvDisconnect(d)) /\ UNCHANGED outside_vars
    \/ (\E d \in InConns : \E m \in InputFrames(d) : InRecv(d, m)) /\ UNCHANGED outside_vars
    \/ (\E d \in InConns : InRecvMalformed(d)) /\ UNCHANGED outside_vars
    \/ (\E d \in InConns : InForwardDone(d)) /\ UNCHANGED outside_vars
    \/ (\E d \in InConns : InPoll(d)) /\ UNCHANGED outside_vars
    \/ (\E d \in InConns : InSendErrorDone(d)) /\ UNCHANGED outside_vars
    \/ (cleanup_stale_agents) /\ UNCHANGED outside_vars
    \/ (Tick) /\ UNCHANGED outside_vars

Spec == Init /\ [][Next]_vars

\* -------------------------------------------------------- lookup endpoint
\* lookup_endpoint, GET_AGENT: the reply frame; the handler changes no state
NoAgent == [address |-> NoAddr]
get_agent(address) ==
    IF address \in DOMAIN agents
    THEN [type |-> "AGENT_INFO",
          agent |-> [address |-> agents[address].address,
                     summary |-> agents[address].summary,
                     online |-> TRUE,
                     last_seen |-> agents[address].last_announce]]
    ELSE [type |-> "AGENT_INFO", agent |-> NoAgent]

\* Summaries and queries are strings; their characters, so that lower() and
\* the substring test of FIND are computed.
Chars(str) ==
    CASE str = "echo" -> <<"e", "c", "h", "o">>
      [] str = "ECHO" -> <<"E", "C", "H", "O">>
      [] str = "Ch" -> <<"C", "h">>
      [] str = "x" -> <<"x">>
      [] OTHER -> <<>>
Queries == {"", "ECHO", "Ch", "x"}
\* str.lower()
LowerChar(ch) ==
    CASE ch = "E" -> "e" [] ch = "C" -> "c" [] ch = "H" -> "h"
      [] ch = "O" -> "o" [] OTHER -> ch
Lower(text) == [k \in 1..Len(text) |-> LowerChar(text[k])]
\* `query in summary`
Contains(query, text) ==
    \E i \in 0..(Len(text) - Len(query)) :
        SubSeq(text, i + 1, i + Len(query)) = query

\* lookup_endpoint, FIND: the reply frame; the handler changes no state.
\* `for agent in agents.values()` runs in the dict's iteration order.
find_entry(agent) ==
    [address |-> agent.address, summary |-> agent.summary,
     last_seen |-> agent.last_announce]
find_matching(query) ==
    LET order == SelectSeq(agents_order,
                    LAMBDA a : Contains(Lower(Chars(query)),
                                        Lower(Chars(agents[a].summary))))
    IN  [k \in 1..Len(order) |-> find_entry(agents[order[k]])]
find(query) ==
    [type |-> "AGENTS", query |-> Lower(Chars(query)),
     agents |-> SubSeq(find_matching(query), 1,
                       Min(Len(find_matching(query)), find_limit))]

\* ------------------------------------------------- the serving agent loop
\* Agent.serve with relay.serve_loop, one agent process holding key K1,
\* talking to the broker over the control connection srv.ws.  A frame the
\* loop sends is read by the broker's handler in the same step.
ServeAddr == Addr0x("K1")
ServeSummary == "echo"

\* asyncio's loop.time(): a monotonic clock, whose origin is not the epoch
\* of time.time()
ClockOffset == 1000
LoopTime == now - ClockOffset

\* announce.create_announce_message: the body with timestamp time.time(),
\* signed by the agent's own key over that body
create_announce_message(address, summary) ==
    WithSignature(AnnounceBody(address, summary),
                  Sign(address[3], AnnounceBody(address, summary)))

\* serve_loop, TimeoutError branch: the timestamp is replaced, the signature
\* is the one made over the first body
RefreshedAnnounce(message) == [message EXCEPT !.timestamp = LoopTime]

\* control connections whose peer is not the serving agent
Peers == CtlConns \ {srv.ws}

\* Agent.serve: build the ANNOUNCE, then relay.connect
ServeConnect(c) ==
    /\ srv.pc = "off"
    /\ CtlAccept(c)
    /\ srv' = [NoServe EXCEPT
                !.pc = "announce", !.ws = c,
                !.announce_message = create_announce_message(ServeAddr, ServeSummary),
                !.wait_since = now]

\* serve_loop: the initial send_announce, then the first wait_for_task
ServeAnnounce ==
    /\ srv.pc = "announce"
    /\ CtlRecvAnnounce(srv.ws, srv.announce_message)
    /\ srv' = [srv EXCEPT !.pc = "wait", !.wait_since = now,
                          !.last_heartbeat = now]

\* wait_for_task returns an ERROR frame of the broker: printed, next wait
ServeRecvError ==
    /\ srv.pc = "wait"
    /\ ctl_rx[srv.ws] # <<>>
    /\ ctl_rx' = [ctl_rx EXCEPT ![srv.ws] = Tail(@)]
    /\ srv' = [srv EXCEPT !.wait_since = now]
    /\ UNCHANGED <<now, agents, pending_inputs, ctl_pc, ctl_open,
                   agent_address, ctl_local, in_vars, sweep_at>>

\* the INPUT frames the broker delivered to the agent's socket: `received`
\* (history) lists the ones the loop has read, `sent` the input_ids of the
\* OUTPUTs it has sent
InputOf(d) == [type |-> "INPUT", input_id |-> in_local[d].input_id, ws |-> d]
Unread(d) ==
    /\ in_local[d].forwarded
    /\ in_local[d].agent_ws = srv.ws
    /\ \A k \in 1..Len(srv.received) : srv.received[k].ws # d

\* wait_for_task returns an INPUT frame: task_handler is called
ServeRecvInput(d) ==
    /\ srv.pc = "wait"
    /\ Unread(d)
    /\ srv' = [srv EXCEPT !.pc = "handle", !.task = InputOf(d),
                          !.received = Append(@, InputOf(d))]
    /\ UNCHANGED broker_vars

\* as output_message, but without the task's input_id
output_message_anonymous(task, result) ==
    [type |-> "OUTPUT", input_id |-> NoId, result |-> result]
\* the OUTPUT serve_loop builds from the task and the handler's result
output_message(task, result) ==
    [type |-> "OUTPUT", input_id |-> task.input_id, result |-> result]

\* as ServeSendOutput, but the loop does not leave the INPUT branch
ServeSendOutputAgain ==
    /\ srv.pc = "handle"
    /\ CtlRecvOutput(srv.ws, output_message(srv.task, "r"))
    /\ srv' = [srv EXCEPT
                !.wait_since = now,
                !.sent = Append(@, output_message(srv.task, "r").input_id)]

\* task_handler returns (a synchronous Agent.input: nothing else ran in the
\* agent meanwhile), the OUTPUT is sent, next wait
ServeSendOutput ==
    /\ srv.pc = "handle"
    /\ CtlRecvOutput(srv.ws, output_message(srv.task, "r"))
    /\ srv' = [srv EXCEPT
                !.pc = "wait", !.task = NoTask, !.wait_since = now,
                !.sent = Append(@, output_message(srv.task, "r").input_id)]

\* task_handler raises: serve_loop catches only TimeoutError and
\* ConnectionClosed, the exception ends the loop and the process
ServeHandlerRaises ==
    /\ srv.pc = "handle"
    /\ ctl_open[srv.ws]
    /\ CtlPeerClose(srv.ws)
    /\ srv' = [srv EXCEPT !.pc = "crashed", !.task = NoTask]

\* heartbeat_interval seconds without a frame: asyncio.TimeoutError
HeartbeatDue == srv.pc = "wait" /\ now - srv.wait_since >= heartbeat_interval

\* serve_loop, TimeoutError branch: heartbeat ANNOUNCE, next wait
ServeHeartbeat ==
    /\ HeartbeatDue
    /\ CtlRecvAnnounce(srv.ws, RefreshedAnnounce(srv.announce_message))
    /\ srv' = [srv EXCEPT
                !.announce_message = RefreshedAnnounce(srv.announce_message),
                !.wait_since = now, !.last_heartbeat = now]

\* websockets.ConnectionClosed: the loop ends
ServeClosed ==
    /\ srv.pc \in {"announce", "wait", "handle"}
    /\ ~ctl_open[srv.ws]
    /\ srv' = [srv EXCEPT !.pc = "closed"]
    /\ UNCHANGED broker_vars

\* ------------------------------------------------------ the calling client
\* connect.RemoteAgent._send_task, one call per dispatch connection
\* str(uuid.uuid4()): a fresh identifier for every call
CallId(d) == IF d = "d1" THEN "i1" ELSE "i2"

input_message(input_id, address, prompt) ==
    [type |-> "INPUT", input_id |-> input_id, to |-> address, prompt |-> prompt]

\* dict.get(field, default)
Get(response, field, default) ==
    IF field \in DOMAIN response THEN response[field] ELSE default

\* as send_task_outcome, but any OUTPUT is taken for the answer
send_task_outcome_any_output(input_id, response) ==
    IF Get(response, "type", "") = "OUTPUT"
    THEN [kind |-> "return", value |-> Get(response, "result", "")]
    ELSE IF Get(response, "type", "") = "ERROR"
    THEN [kind |-> "ConnectionError", value |-> Get(response, "error", "")]
    ELSE [kind |-> "ConnectionError", value |-> "Unexpected response"]

\* what _send_task does with the first frame it reads
send_task_outcome(input_id, response) ==
    IF Get(response, "type", "") = "OUTPUT"
       /\ Get(response, "input_id", "") = input_id
    THEN [kind |-> "return", value |-> Get(response, "result", "")]
    ELSE IF Get(response, "type", "") = "ERROR"
    THEN [kind |-> "ConnectionError", value |-> Get(response, "error", "")]
    ELSE [kind |-> "ConnectionError", value |-> "Unexpected response"]

\* websockets.connect(relay_input_url)
CallConnect(d, address) ==
    /\ call[d].pc = "off"
    /\ InAccept(d)
    /\ call' = [call EXCEPT ![d] = [NoCall EXCEPT !.pc = "send",
                                                  !.input_id = CallId(d),
                                                  !.to = address]]

\* await ws.send(json.dumps(input_message)), read by the broker's handler in
\* the same step; then the wait for the first frame starts
CallSend(d) ==
    /\ call[d].pc = "send"
    /\ InRecv(d, input_message(call[d].input_id, call[d].to, "hi"))
    /\ call' = [call EXCEPT ![d].pc = "wait", ![d].sent_at = now]

\* the call ends: `async with` closes the websocket
CallEnd(d, outcome) ==
    /\ call' = [call EXCEPT ![d].pc = "done", ![d].outcome = outcome]
    /\ in_open' = [in_open EXCEPT ![d] = FALSE]
    /\ UNCHANGED <<now, agents, pending_inputs, ctl_vars, in_pc, in_local,
                   in_rx, sweep_at>>

\* ws.recv() returns the first frame
CallRecv(d) ==
    /\ call[d].pc = "wait"
    /\ in_rx[d] # <<>>
    /\ CallEnd(d, send_task_outcome(call[d].input_id, in_rx[d][1]))

\* asyncio.wait_for gives up after `timeout` seconds without a frame
CallTimeout(d) ==
    /\ call[d].pc = "wait"
    /\ in_rx[d] = <<>>
    /\ now - call[d].sent_at >= call_timeout
    /\ CallEnd(d, [kind |-> "TimeoutError", value |-> ""])

\* the connection closed without a frame: send or recv raises
CallClosed(d) ==
    /\ call[d].pc \in {"send", "wait"}
    /\ in_rx[d] = <<>>
    /\ ~in_open[d]
    /\ CallEnd(d, [kind |-> "ConnectionClosed", value |-> ""])

\* ------------------------------------------------------------- fine clock
\* Timers fire on time: the clock does not pass the end of the sweeper's
\* sleep or of the serve loop's wait before they have run.
MinOf(S) == CHOOSE x \in S : \A y \in S : x <= y
NextTimer ==
    MinOf({sweep_at}
          \cup (IF srv.pc = "wait"
                THEN {srv.wait_since + heartbeat_interval} ELSE {})
          \cup { call[d].sent_at + call_timeout :
                    d \in {e \in InConns : call[e].pc = "wait"} })

TickFine ==
    /\ now < MaxFineTime
    /\ Accepted <= MaxTimedConns
    /\ now < NextTimer
    /\ now' = Min(now + FineQuantum, NextTimer)
    /\ UNCHANGED <<agents, pending_inputs, ctl_vars, in_vars, sweep_at>>

AcceptedCtl == Cardinality({c \in CtlConns : ctl_pc[c] # "new"})
AcceptedIn == Cardinality({d \in InConns : in_pc[d] # "new"})

\* The broker with one serving agent and the timers firing on time.
NextTimed ==
    \/ (AcceptedCtl < MaxFineCtl /\ \E c \in CtlConns : CtlAccept(c)) /\ UNCHANGED outside_vars
    \/ (\E c \in CtlConns : CtlPeerClose(c)) /\ UNCHANGED outside_vars
    \/ (\E c \in CtlConns : CtlRecvDisconnect(c)) /\ UNCHANGED outside_vars
    \/ (\E c \in Peers : CtlRecvMalformed(c)) /\ UNCHANGED outside_vars
    \/ (\E c \in Peers : \E m \in AuthenticFrames : CtlRecvAnnounce(c, m)) /\ UNCHANGED outside_vars
    \/ (\E c \in CtlConns : CtlSendErrorDone(c)) /\ UNCHANGED outside_vars
    \/ (\E c \in Peers : \E m \in OutputFrames : CtlRecvOutput(c, m)) /\ UNCHANGED outside_vars
    \/ (\E c \in CtlConns : CtlForwardDone(c)) /\ UNCHANGED outside_vars
    \/ (\E c \in Peers : \E m \in HeartbeatFrames : CtlRecvHeartbeat(c, m)) /\ UNCHANGED outside_vars
    \/ (AcceptedIn < MaxFineIn /\ \E d \in InConns : InAccept(d)) /\ UNCHANGED outside_vars
    \/ (\E d \in InConns : InPeerClose(d)) /\ UNCHANGED outside_vars
    \/ (\E d \in InConns : InRecvDisconnect(d)) /\ UNCHANGED outside_vars
    \/ (\E d \in InConns : \E m \in InputFrames(d) : InRecv(d, m)) /\ UNCHANGED outside_vars
    \/ (\E d \in InConns : InForwardDone(d)) /\ UNCHANGED outside_vars
    \/ (\E d \in InConns : InPoll(d)) /\ UNCHANGED outside_vars
    \/ (\E d \in InConns : InSendErrorDone(d)) /\ UNCHANGED outside_vars
    \/ (cleanup_stale_agents) /\ UNCHANGED outside_vars
    \/ (AcceptedCtl < MaxFineCtl /\ \E c \in CtlConns : ServeConnect(c)) /\ UNCHANGED <<agents_order, agent_rx, call, keys>>
    \/ (ServeAnnounce) /\ UNCHANGED <<agents_order, agent_rx, call, keys>>
    \/ (ServeRecvError) /\ UNCHANGED <<agents_order, agent_rx, call, keys>>
    \/ (\E d \in InConns : ServeRecvInput(d)) /\ UNCHANGED <<agents_order, agent_rx, call, keys>>
    \/ (ServeSendOutput) /\ UNCHANGED <<agents_order, agent_rx, call, keys>>
    \/ (ServeHandlerRaises) /\ UNCHANGED <<agents_order, agent_rx, call, keys>>
    \/ (ServeHeartbeat) /\ UNCHANGED <<agents_order, agent_rx, call, keys>>
    \/ (ServeClosed) /\ UNCHANGED <<agents_order, agent_rx, call, keys>>
    \/ (TickFine) /\ UNCHANGED outside_vars

SpecTimed == Init /\ [][NextTimed]_vars

\* The broker between one serving agent and calling clients, both running
\* the library's own code, on the fine clock.
NextCall ==
    \/ (\E c \in CtlConns : CtlPeerClose(c)) /\ UNCHANGED outside_vars
    \/ (\E c \in CtlConns : CtlRecvDisconnect(c)) /\ UNCHANGED outside_vars
    \/ (\E c \in CtlConns : CtlSendErrorDone(c)) /\ UNCHANGED outside_vars
    \/ (\E c \in CtlConns : CtlForwardDone(c)) /\ UNCHANGED outside_vars
    \/ (\E d \in InConns : InPeerClose(d)) /\ UNCHANGED outside_vars
    \/ (\E d \in InConns : InRecvDisconnect(d)) /\ UNCHANGED outside_vars
    \/ (\E d \in InConns : InForwardDone(d)) /\ UNCHANGED outside_vars
    \/ (\E d \in InConns : InPoll(d)) /\ UNCHANGED outside_vars
    \/ (\E d \in InConns : InSendErrorDone(d)) /\ UNCHANGED outside_vars
    \/ (cleanup_stale_agents) /\ UNCHANGED outside_vars
    \/ (AcceptedCtl < MaxFineCtl /\ \E c \in CtlConns : ServeConnect(c)) /\ UNCHANGED <<agents_order, agent_rx, call, keys>>
    \/ (ServeAnnounce) /\ UNCHANGED <<agents_order, agent_rx, call, keys>>
    \/ (ServeRecvError) /\ UNCHANGED <<agents_order, agent_rx, call, keys>>
    \/ (\E d \in InConns : ServeRecvInput(d)) /\ UNCHANGED <<agents_order, agent_rx, call, keys>>
    \/ (ServeSendOutput) /\ UNCHANGED <<agents_order, agent_rx, call, keys>>
    \/ (ServeHandlerRaises) /\ UNCHANGED <<agents_order, agent_rx, call, keys>>
    \/ (ServeHeartbeat) /\ UNCHANGED <<agents_order, agent_rx, call, keys>>
    \/ (ServeClosed) /\ UNCHANGED <<agents_order, agent_rx, call, keys>>
    \/ (\E d \in InConns : \E a \in Addrs : CallConnect(d, a)) /\ UNCHANGED <<agents_order, agent_rx, srv, keys>>
    \/ (\E d \in InConns : CallSend(d)) /\ UNCHANGED <<agents_order, agent_rx, srv, keys>>
    \/ (\E d \in InConns : CallRecv(d)) /\ UNCHANGED <<agents_order, agent_rx, srv, keys>>
    \/ (\E d \in InConns : CallTimeout(d)) /\ UNCHANGED <<agents_order, agent_rx, srv, keys>>
    \/ (\E d \in InConns : CallClosed(d)) /\ UNCHANGED <<agents_order, agent_rx, srv, keys>>
    \/ (TickFine) /\ UNCHANGED outside_vars

SpecCall == Init /\ [][NextCall]_vars

\* The registry as the lookup endpoint sees it: control connections of
\* agents that sign their ANNOUNCEs, the sweeper and the coarse clock, with
\* the dict's iteration order kept.
NextLookup ==
    \/ (\E c \in CtlConns : CtlAccept(c)) /\ Ordered /\ UNCHANGED <<agent_rx, srv, call, keys>>
    \/ (\E c \in CtlConns : CtlPeerClose(c)) /\ Ordered /\ UNCHANGED <<agent_rx, srv, call, keys>>
    \/ (\E c \in CtlConns : CtlRecvDisconnect(c)) /\ Ordered /\ UNCHANGED <<agent_rx, srv, call, keys>>
    \/ (\E c \in CtlConns : \E m \in AuthenticFrames : CtlRecvAnnounce(c, m)) /\ Ordered /\ UNCHANGED <<agent_rx, srv, call, keys>>
    \/ (cleanup_stale_agents) /\ Ordered /\ UNCHANGED <<agent_rx, srv, call, keys>>
    \/ (Tick) /\ Ordered /\ UNCHANGED <<agent_rx, srv, call, keys>>

SpecLookup == Init /\ [][NextLookup]_vars

\* The pending table over time: one agent that announces and answers with
\* any OUTPUT, callers that send well-formed INPUTs, and a clock that runs
\* on to MaxTime whatever the number of connections.
TickFree ==
    /\ now < MaxTime
    /\ now' = now + Quantum
    /\ UNCHANGED <<agents, pending_inputs, ctl_vars, in_vars, sweep_at>>

WellFormedInputs(d) ==
    { m \in InputFrames(d) :
        m.type = "INPUT" /\ m.input_id # NoId /\ m.to # NoAddr /\ m.prompt # NoId }

NextPending ==
    \/ (AcceptedCtl < MaxFineCtl /\ \E c \in CtlConns : CtlAccept(c)) /\ UNCHANGED outside_vars
    \/ (\E c \in CtlConns : CtlPeerClose(c)) /\ UNCHANGED outside_vars
    \/ (\E c \in CtlConns : CtlRecvDisconnect(c)) /\ UNCHANGED outside_vars
    \/ (\E c \in CtlConns : CtlRecvAnnounce(c, create_announce_message(ServeAddr, ServeSummary))) /\ UNCHANGED outside_vars
    \/ (\E c \in CtlConns : \E m \in OutputFrames : CtlRecvOutput(c, m)) /\ UNCHANGED outside_vars
    \/ (\E c \in CtlConns : CtlForwardDone(c)) /\ UNCHANGED outside_vars
    \/ (\E d \in InConns : InAccept(d)) /\ UNCHANGED outside_vars
    \/ (\E d \in InConns : InPeerClose(d)) /\ UNCHANGED outside_vars
    \/ (\E d \in InConns : InRecvDisconnect(d)) /\ UNCHANGED outside_vars
    \/ (\E d \in InConns : \E m \in WellFormedInputs(d) : InRecv(d, m)) /\ UNCHANGED outside_vars
    \/ (\E d \in InConns : InForwardDone(d)) /\ UNCHANGED outside_vars
    \/ (\E d \in InConns : InPoll(d)) /\ UNCHANGED outside_vars
    \/ (\E d \in InConns : InSendErrorDone(d)) /\ UNCHANGED outside_vars
    \/ (TickFree) /\ UNCHANGED outside_vars

SpecPending == Init /\ [][NextPending]_vars

\* Routing: the INPUT frames that reach the agents' sockets.  Agents that
\* sign their ANNOUNCEs, on two control connections, and callers that send
\* well-formed INPUTs with one of two prompts.
Prompts == {"hi", "ho"}
RoutedInputs(d) ==
    { input_message(i, a, p) : i \in IdsOf(d), a \in Addrs, p \in Prompts }

\* the frame input_endpoint sends to agent.websocket; `ws` records the
\* dispatch connection it was sent for (history, not on the wire)
forwarded_input(d) ==
    [type |-> "INPUT", input_id |-> in_local[d].input_id,
     prompt |-> in_local[d].prompt, from_address |-> "unknown", ws |-> d]

\* `await agent.websocket.send_json(INPUT)` completes in this step
Sent(d) ==
    /\ in_pc[d] = "forward"
    /\ in_pc'[d] # "forward"
    /\ ctl_open[in_local[d].agent_ws]
\* a completed send puts its frame on the socket it was sent on
Routed ==
    agent_rx' =
        IF \E d \in InConns : Sent(d)
        THEN LET d == CHOOSE e \in InConns : Sent(e) IN
             [agent_rx EXCEPT ![in_local[d].agent_ws] =
                                    Append(@, forwarded_input(d))]
        ELSE agent_rx

NextRouting ==
    \/ (\E c \in CtlConns : CtlAccept(c)) /\ Routed /\ UNCHANGED <<agents_order, srv, call, keys>>
    \/ (\E c \in CtlConns : CtlPeerClose(c)) /\ Routed /\ UNCHANGED <<agents_order, srv, call, keys>>
    \/ (\E c \in CtlConns : CtlRecvDisconnect(c)) /\ Routed /\ UNCHANGED <<agents_order, srv, call, keys>>
    \/ (\E c \in CtlConns : \E m \in AuthenticFrames : CtlRecvAnnounce(c, m)) /\ Routed /\ UNCHANGED <<agents_order, srv, call, keys>>
    \/ (\E c \in CtlConns : \E m \in OutputFrames : CtlRecvOutput(c, m)) /\ Routed /\ UNCHANGED <<agents_order, srv, call, keys>>
    \/ (\E c \in CtlConns : CtlForwardDone(c)) /\ Routed /\ UNCHANGED <<agents_order, srv, call, keys>>
    \/ (\E d \in InConns : InAccept(d)) /\ Routed /\ UNCHANGED <<agents_order, srv, call, keys>>
    \/ (\E d \in InConns : InPeerClose(d)) /\ Routed /\ UNCHANGED <<agents_order, srv, call, keys>>
    \/ (\E d \in InConns : InRecvDisconnect(d)) /\ Routed /\ UNCHANGED <<agents_order, srv, call, keys>>
    \/ (\E d \in InConns : \E m \in RoutedInputs(d) : InRecv(d, m)) /\ Routed /\ UNCHANGED <<agents_order, srv, call, keys>>
    \/ (\E d \in InConns : InForwardDone(d)) /\ Routed /\ UNCHANGED <<agents_order, srv, call, keys>>
    \/ (\E d \in InConns : InPoll(d)) /\ Routed /\ UNCHANGED <<agents_order, srv, call, keys>>
    \/ (\E d \in InConns : InSendErrorDone(d)) /\ Routed /\ UNCHANGED <<agents_order, srv, call, keys>>

SpecRouting == Init /\ [][NextRouting]_vars

\* ------------------------------------------------------------ address.py
\* Byte strings are sequences of 16-byte blocks.  Mnemonic.to_seed gives 64
\* bytes; an Ed25519 signing key is its 32-byte seed, and its verify key is
\* the 32 bytes whose hexadecimal form is the address after "0x".
Phrases == {"p1", "p2"}
to_seed(seed_phrase) ==
    IF seed_phrase = "p1" THEN <<"p1a", "p1b", "p1c", "p1d">>
                          ELSE <<"p2a", "p2b", "p2c", "p2d">>
\* SigningKey(seed) raises unless the seed has 32 bytes
IsKeySized(bytes) == Len(bytes) = 2
verify_key(signing_key) ==
    IF signing_key = <<"p1a", "p1b">> THEN "K1" ELSE "K2"

\* generate(), with the phrase Mnemonic.generate drew
generate(seed_phrase) ==
    LET signing_key == SubSeq(to_seed(seed_phrase), 1, 2) IN
    [kind |-> "identity", address |-> Addr0x(verify_key(signing_key)),
     seed_phrase |-> seed_phrase, signing_key |-> signing_key]

\* Mnemonic.check: the phrases generate can draw are valid, "bad" is not
check(seed_phrase) == seed_phrase \in Phrases
ValueError == [kind |-> "error", error |-> "ValueError"]

\* as recover_signing_key, but from the last 32 bytes of the seed
recover_signing_key_tail(seed) == SubSeq(seed, 3, 4)
\* recover: SigningKey(seed[:32])
recover_signing_key(seed) == SubSeq(seed, 1, 2)

\* recover(seed_phrase): ValueError for an invalid phrase; the result has
\* no "seed_phrase"
recover(seed_phrase) ==
    IF ~check(seed_phrase) THEN ValueError
    ELSE LET signing_key == recover_signing_key(to_seed(seed_phrase)) IN
         [kind |-> "identity", address |-> Addr0x(verify_key(signing_key)),
          signing_key |-> signing_key]

\* as KeyFileBytes, but the whole 64-byte seed is written
KeyFileBytesLong(address_data) == to_seed(address_data.seed_phrase)
\* bytes(address_data["signing_key"])
KeyFileBytes(address_data) == address_data.signing_key

\* save(address_data, sb_dir): the three files it leaves in sb_dir/keys
save(address_data, file) ==
    [exists |-> TRUE, bytes |-> KeyFileBytes(address_data),
     recovery |-> IF address_data.seed_phrase # ""
                  THEN address_data.seed_phrase ELSE file.recovery,
     warning |-> TRUE]

\* load(sb_dir): None without pynacl, without the key file, and on any
\* exception (`except Exception: return None`); "seed_phrase" is set only
\* when recovery.txt holds text
load(installed, file) ==
    IF ~installed THEN None
    ELSE IF ~file.exists THEN None
    ELSE IF ~IsKeySized(file.bytes) THEN None
    ELSE [kind |-> "identity", address |-> Addr0x(verify_key(file.bytes)),
          seed_phrase |-> file.recovery, signing_key |-> file.bytes]

\* sign(address_data, message) and verify(address, message, signature)
sign(address_data, message) ==
    Sign(verify_key(address_data.signing_key), message)

\* how a call ends: it returns `value`, or it raises `error`
Return(value) == [kind |-> "return", value |-> value, error |-> ""]
Raise(error) == [kind |-> "raise", value |-> FALSE, error |-> error]

\* verify, the `try` block: the format test returns False; bytes.fromhex
\* raises ValueError on text that is not hexadecimal; VerifyKey.verify raises
\* BadSignatureError unless the signature was made over this message with
\* the key the address names
verify_try(address, message, signature) ==
    IF ~StartsWith0x(address) \/ Len(address) # 3 THEN Return(FALSE)
    ELSE IF ~IsKeyHex(StripPrefix(address)) THEN Raise("ValueError")
    ELSE IF signature # Sign(address[3], message) THEN Raise("BadSignatureError")
    ELSE Return(TRUE)

\* as verify_outcome, but without the `except Exception`
verify_outcome_uncaught(installed, address, message, signature) ==
    IF ~installed THEN Return(FALSE)
    ELSE verify_try(address, message, signature)
\* verify(address, message, signature) as a call: False without pynacl,
\* and `except Exception: return False`
verify_outcome(installed, address, message, signature) ==
    IF ~installed THEN Return(FALSE)
    ELSE IF verify_try(address, message, signature).kind = "raise"
    THEN Return(FALSE)
    ELSE verify_try(address, message, signature)
\* its value, with pynacl present
verify(address, message, signature) ==
    verify_outcome(TRUE, address, message, signature) = Return(TRUE)

\* what a key file can hold before the program runs: nothing, a key, or a
\* number of bytes that is not 32
KeyFiles ==
    {Missing} \cup
    { [exists |-> TRUE, bytes |-> b, recovery |-> "", warning |-> FALSE] :
        b \in {<<>>, <<"p1a">>, <<"p1a", "p1b">>, <<"p2a", "p2b">>,
               <<"p1a", "p1b", "p1c">>} }

InitKeys ==
    /\ now = 0
    /\ agents = EmptyDict
    /\ pending_inputs = EmptyDict
    /\ ctl_pc = [c \in CtlConns |-> "new"]
    /\ ctl_open = [c \in CtlConns |-> FALSE]
    /\ agent_address = [c \in CtlConns |-> NoAddr]
    /\ ctl_local = [c \in CtlConns |-> NoCtlLocal]
    /\ ctl_rx = [c \in CtlConns |-> <<>>]
    /\ in_pc = [d \in InConns |-> "new"]
    /\ in_open = [d \in InConns |-> FALSE]
    /\ in_local = [d \in InConns |-> NoInLocal]
    /\ in_rx = [d \in InConns |-> <<>>]
    /\ sweep_at = sweep_period
    /\ agents_order = <<>>
    /\ agent_rx = [c \in CtlConns |-> <<>>]
    /\ srv = NoServe
    /\ call = [d \in InConns |-> NoCall]
    /\ \E i \in BOOLEAN : \E f \in [Dirs -> KeyFiles] :
          keys = [NoKeys EXCEPT !.installed = i, !.file = f]

\* addr_data = address.generate()
KeysGenerate(seed_phrase) ==
    /\ keys.installed
    /\ keys' = [keys EXCEPT !.generated = generate(seed_phrase)]
    /\ UNCHANGED <<broker_vars, agents_order, agent_rx, srv, call>>

\* address.save(addr_data, sb_dir)
KeysSave(dir) ==
    /\ keys.generated # Unset
    /\ keys' = [keys EXCEPT !.file[dir] = save(keys.generated, keys.file[dir])]
    /\ UNCHANGED <<broker_vars, agents_order, agent_rx, srv, call>>

\* addr_data = address.load(sb_dir)
KeysLoad(dir) ==
    /\ keys' = [keys EXCEPT !.loaded = load(keys.installed, keys.file[dir])]
    /\ UNCHANGED <<broker_vars, agents_order, agent_rx, srv, call>>

\* address.recover(seed_phrase)
KeysRecover(seed_phrase) ==
    /\ keys.installed
    /\ keys' = [keys EXCEPT !.recovered = recover(seed_phrase)]
    /\ UNCHANGED <<broker_vars, agents_order, agent_rx, srv, call>>

\* Agent.serve, "Load or generate keys": load; when it gave None, generate
\* (with the phrase Mnemonic.generate drew; ImportError without the
\* libraries) and save.  `serving` is the identity the agent announces.
KeysServe(dir, seed_phrase) ==
    LET addr_data == load(keys.installed, keys.file[dir]) IN
    /\ IF addr_data # None
       THEN keys' = [keys EXCEPT !.serving = addr_data]
       ELSE /\ keys.installed
            /\ keys' = [keys EXCEPT
                  !.serving = generate(seed_phrase),
                  !.file[dir] = save(generate(seed_phrase), keys.file[dir])]
    /\ UNCHANGED <<broker_vars, agents_order, agent_rx, srv, call>>

NextKeys ==
    \/ \E p \in Phrases : KeysGenerate(p)
    \/ \E dir \in Dirs : \E p \in Phrases : KeysServe(dir, p)
    \/ \E p \in Phrases \cup {"bad"} : KeysRecover(p)
    \/ \E dir \in Dirs : KeysSave(dir)
    \/ \E dir \in Dirs : KeysLoad(dir)

SpecKeys == InitKeys /\ [][NextKeys]_vars

\* ------------------------------------------------- signing and verifying
\* The identities in memory sign, and verify is called with their addresses
\* and signatures and with malformed ones: an address without "0x", of the
\* wrong length, not hexadecimal or empty, and a signature cut short.
Messages == {"hello", "bye"}
InMemory == {keys.generated, keys.recovered} \ {Unset, ValueError}
MalformedAddrs ==
    {AddrBare("K1"), <<"0", "x", "ZZ">>, <<"0", "x", "K1", "K1">>, NoAddr}
MalformedSignatures == { Sign("", m) : m \in Messages }

InitVerify ==
    /\ now = 0
    /\ agents = EmptyDict
    /\ pending_inputs = EmptyDict
    /\ ctl_pc = [c \in CtlConns |-> "new"]
    /\ ctl_open = [c \in CtlConns |-> FALSE]
    /\ agent_address = [c \in CtlConns |-> NoAddr]
    /\ ctl_local = [c \in CtlConns |-> NoCtlLocal]
    /\ ctl_rx = [c \in CtlConns |-> <<>>]
    /\ in_pc = [d \in InConns |-> "new"]
    /\ in_open = [d \in InConns |-> FALSE]
    /\ in_local = [d \in InConns |-> NoInLocal]
    /\ in_rx = [d \in InConns |-> <<>>]
    /\ sweep_at = sweep_period
    /\ agents_order = <<>>
    /\ agent_rx = [c \in CtlConns |-> <<>>]
    /\ srv = NoServe
    /\ call = [d \in InConns |-> NoCall]
    /\ \E i \in BOOLEAN : keys = [NoKeys EXCEPT !.installed = i]

\* verify(address, message, signature); the arguments are kept with the
\* outcome (history)
KeysVerify(address, message, signature) ==
    /\ keys' = [keys EXCEPT !.verified =
                    [address |-> address, message |-> message,
                     signature |-> signature,
                     outcome |-> verify_outcome(keys.installed, address,
                                                message, signature)]]
    /\ UNCHANGED <<broker_vars, agents_order, agent_rx, srv, call>>

NextVerify ==
    \/ \E p \in Phrases : KeysGenerate(p)
    \/ \E p \in Phrases \cup {"bad"} : KeysRecover(p)
    \/ \E address \in { I.address : I \in InMemory } \cup MalformedAddrs :
       \E message \in Messages :
       \E signature \in { sign(I, m) : I \in InMemory, m \in Messages }
                            \cup MalformedSignatures :
          KeysVerify(address, message, signature)

SpecVerify == InitVerify /\ [][NextVerify]_vars

\* ------------------------------------------------- the client on its own
\* _send_task facing any server: the first frame in the caller's socket is
\* any JSON object over the protocol's fields, each field present or not.
ResponseFields ==
    [type |-> {"OUTPUT", "ERROR", "INPUT"}, input_id |-> InputIds,
     result |-> {"r", "s"}, error |-> {"Request timed out"}]
ResponseFrames ==
    UNION { { f \in [F -> UNION { ResponseFields[k] : k \in F }] :
                \A k \in F : f[k] \in ResponseFields[k] } :
            F \in SUBSET DOMAIN ResponseFields }

\* a call under way whose INPUT was sent, and the server's first frame
InitClient ==
    /\ now = 0
    /\ agents = EmptyDict
    /\ pending_inputs = EmptyDict
    /\ ctl_pc = [c \in CtlConns |-> "new"]
    /\ ctl_open = [c \in CtlConns |-> FALSE]
    /\ agent_address = [c \in CtlConns |-> NoAddr]
    /\ ctl_local = [c \in CtlConns |-> NoCtlLocal]
    /\ ctl_rx = [c \in CtlConns |-> <<>>]
    /\ in_pc = [d \in InConns |-> IF d = "d1" THEN "done" ELSE "new"]
    /\ in_open = [d \in InConns |-> d = "d1"]
    /\ in_local = [d \in InConns |-> NoInLocal]
    /\ \E f \in ResponseFrames :
          in_rx = [d \in InConns |-> IF d = "d1" THEN <<f>> ELSE <<>>]
    /\ sweep_at = sweep_period
    /\ agents_order = <<>>
    /\ agent_rx = [c \in CtlConns |-> <<>>]
    /\ srv = NoServe
    /\ call = [d \in InConns |->
                 IF d = "d1"
                 THEN [NoCall EXCEPT !.pc = "wait", !.input_id = CallId(d),
                                     !.to = ServeAddr]
                 ELSE NoCall]
    /\ keys = NoKeys

NextClient ==
    \/ (\E d \in InConns : CallRecv(d)) /\ UNCHANGED <<agents_order, agent_rx, srv, keys>>

SpecClient == InitClient /\ [][NextClient]_vars

\* ================================================================ claims
Frames(d) == { in_rx[d][k] : k \in 1..Len(in_rx[d]) }
Outputs(d) == { f \in Frames(d) : f.type = "OUTPUT" }
Serving(d) == in_pc[d] \notin {"new", "done"}

\* C1 (as claimed): a dispatch connection is delivered at most one response
\* frame, never an OUTPUT and an ERROR both and never two OUTPUTs.
C1_AtMostOneResponse ==
    \A d \in InConns : Len(in_rx[d]) <= 1

\* C2 (as claimed): the dispatch task never finishes the exchange of a
\* connection that sent a frame and is still open without an OUTPUT or an
\* ERROR having been delivered to it.
C2_ResponseBeforeFinish ==
    [][\A d \in InConns :
        (in_pc[d] \in {"forward", "poll", "sendError"}
            /\ in_pc'[d] = "done" /\ in_open[d])
        => in_rx'[d] # <<>>]_vars

\* C3: every OUTPUT delivered to a dispatch connection carries the input_id
\* of the INPUT that this connection sent.
C3_OutputCarriesCallerId ==
    \A d \in InConns :
        Serving(d) =>
            \A f \in Outputs(d) : f.input_id = in_local[d].input_id

\* An OUTPUT has been delivered to one caller while another caller waits
\* with a different input_id.
C3_Witness ==
    \E d, e \in InConns :
        /\ Serving(d) /\ Outputs(d) # {}
        /\ in_pc[e] = "poll"
        /\ \A f \in Outputs(d) : f.input_id # in_local[e].input_id

\* C4 (as claimed): an OUTPUT is delivered to a caller only when it arrived
\* on the control connection to which the caller's INPUT was forwarded.
C4_OutputOnlyFromTarget ==
    \A d \in InConns :
        Serving(d) =>
            \A f \in Outputs(d) : f.via = in_local[d].agent_ws

\* C5 (as claimed): an INPUT whose input_id is already pending leaves the
\* existing pending entry (caller handle and start time) unchanged.
C5_PendingNeverOverwritten ==
    [][\A i \in DOMAIN pending_inputs :
        i \in DOMAIN pending_inputs'
        => pending_inputs'[i] = pending_inputs[i]]_vars

\* The registry record for address a is created or overwritten in this step
\* (a HEARTBEAT only touches last_heartbeat).
Written(a) ==
    /\ a \in DOMAIN agents'
    /\ \/ a \notin DOMAIN agents
       \/ [agents'[a] EXCEPT !.last_heartbeat = 0]
            # [agents[a] EXCEPT !.last_heartbeat = 0]

\* The record's signature was made with the key embedded in address a, over
\* the fields of the ANNOUNCE that wrote the record.
Authentic(r, a) ==
    /\ r.address = a
    /\ a \in Addrs
    /\ r.signature =
         Sign(a[3], [type |-> "ANNOUNCE", address |-> a,
                     timestamp |-> r.last_announce, summary |-> r.summary])

\* C6: a registry record for address A is created or overwritten only by an
\* ANNOUNCE whose signature verifies under the key embedded in A, and its
\* connection handle is the connection on which that ANNOUNCE arrived (a
\* connection reading a frame, bound to A by this step).
C6_RecordsAuthenticated ==
    [][\A a \in DOMAIN agents' :
        Written(a) =>
            /\ Authentic(agents'[a], a)
            /\ LET c == agents'[a].websocket IN
                /\ ctl_pc[c] = "recv" /\ ctl_open[c]
                /\ agent_address'[c] = a]_vars

\* Both addresses are registered, on different connections, and one of the
\* connections also had an ANNOUNCE rejected.
C6_Witness ==
    /\ DOMAIN agents = Addrs
    /\ \E a, b \in DOMAIN agents : agents[a].websocket # agents[b].websocket
    /\ \E a \in DOMAIN agents : ctl_rx[agents[a].websocket] # <<>>

\* C7: an ANNOUNCE whose signature does not verify changes no registry entry
\* and is answered with an ERROR on the still open connection, which goes
\* back to reading frames; a correctly signed ANNOUNCE that follows on the
\* same connection creates the record for its address with this connection
\* as handle.
C7_BadSignatureThenRetry ==
    [][\A c \in CtlConns :
        /\ (ctl_pc[c] = "recv" /\ ctl_pc'[c] = "sendError")
            => (agents' = agents /\ ctl_open'[c])
        /\ (ctl_pc[c] = "sendError" /\ ctl_open[c] /\ ctl_pc'[c] # "sendError")
            => /\ ctl_pc'[c] = "recv"
               /\ ctl_open'[c]
               /\ agents' = agents
               /\ ctl_rx'[c] = Append(ctl_rx[c],
                                  CtlFrame("ERROR", NoId, "Invalid signature"))
        /\ (ctl_rx[c] # <<>> /\ ctl_pc[c] = "recv" /\ ctl_open[c])
            => \A m \in AuthenticFrames :
                CtlRecvAnnounce(c, m)
                => /\ m.address \in DOMAIN agents'
                   /\ agents'[m.address].websocket = c
                   /\ agents'[m.address].summary = m.summary
                   /\ ctl_pc'[c] = "recv"]_vars

\* A connection that was answered ERROR is open, unbound and reading frames
\* again, and nothing is registered.
C7_Witness ==
    \E c \in CtlConns :
        /\ ctl_rx[c] # <<>>
        /\ ctl_pc[c] = "recv" /\ ctl_open[c]
        /\ agent_address[c] = NoAddr
        /\ agents = EmptyDict

\* C8 (as claimed): the registry never holds more entries than there are
\* control connections the broker is serving.
C8_RegistryBound ==
    Cardinality(DOMAIN agents)
        <= Cardinality({c \in CtlConns : ctl_pc[c] \notin {"new", "done"}})

\* The dispatch socket is open; one that closed while its handler is
\* suspended in a send still counts, the send is about to observe it.
OpenDispatch(d) == Serving(d) /\ (in_open[d] \/ in_pc[d] # "poll")

C11_NoRecordOfClosedConnection ==
    \A a \in DOMAIN agents : ctl_pc[agents[a].websocket] # "done"

\* C12 (as claimed): the sweeper never evicts the record of an agent whose
\* connection is open and whose frames (the ANNOUNCE, then HEARTBEATs) have
\* come less than the stale threshold apart, the last one less than the
\* stale threshold ago.
C12_HeartbeatKeepsRecord ==
    [][\A a \in DOMAIN agents :
        LET r == agents[a] IN
        (/\ sweep_at' # sweep_at
         /\ ctl_open[r.websocket] /\ agent_address[r.websocket] = a
         /\ r.last_heartbeat - r.last_announce < stale_threshold
         /\ now - r.last_heartbeat < stale_threshold)
        => a \in DOMAIN agents']_vars

\* C13 (as claimed): while the serving agent's loop runs and its control
\* connection is open, the registry holds a record for its address (so an
\* INPUT addressed to it is not answered "Agent not found or offline").
C13_ServingAgentRegistered ==
    (srv.pc = "wait" /\ ctl_open[srv.ws] /\ ctl_pc[srv.ws] # "done")
        => ServeAddr \in DOMAIN agents

\* C14 (as claimed): the ANNOUNCE the serving agent's loop sent last, the
\* initial one or a heartbeat, carries a signature that verifies over the
\* message's current fields.
C14_SentAnnounceVerifies ==
    srv.pc = "wait" => verify_signature(srv.announce_message)

\* C15: with the sweeper's timer firing on time, GET_AGENT returns a record
\* only for an address whose last accepted ANNOUNCE is at most stale
\* threshold + sweeper period old: an agent that announced and then stayed
\* silent for longer has no record and its lookup returns null.
C15_SilentAgentEvicted ==
    \A a \in Addrs \cup {BadHexAddr} :
        LET reply == get_agent(a) IN
        /\ reply.agent # NoAgent
            => now - reply.agent.last_seen <= stale_threshold + sweep_period
        /\ reply.agent = NoAgent <=> a \notin DOMAIN agents

\* The agent's connection is open and still bound to its address, the stale
\* threshold plus the sweeper period have passed, and the sweeper has
\* removed the record: the lookup returns null.
C15_Witness ==
    \E c \in CtlConns :
        /\ ctl_open[c] /\ ctl_pc[c] = "recv"
        /\ agent_address[c] # NoAddr
        /\ now >= stale_threshold + sweep_period
        /\ get_agent(agent_address[c]).agent = NoAgent

\* C16 (as claimed): when the sweeper removes a record, the control
\* connection held by that record is closed.
C16_EvictionClosesConnection ==
    [][\A a \in DOMAIN agents :
        (sweep_at' # sweep_at /\ a \notin DOMAIN agents')
        => ~ctl_open'[agents[a].websocket]]_vars

\* C17: reading an OUTPUT whose input_id is not in the pending table sends
\* no frame to any dispatch connection, starts no forward, and leaves the
\* registry and the pending table unchanged.
C17_UnknownOutputDropped ==
    [][\A c \in CtlConns : \A m \in OutputFrames :
        (m.input_id \notin DOMAIN pending_inputs /\ CtlRecvOutput(c, m))
        => /\ in_rx' = in_rx
           /\ ctl_rx' = ctl_rx
           /\ ctl_pc'[c] = "recv"
           /\ ctl_local' = ctl_local
           /\ agents' = agents
           /\ pending_inputs' = pending_inputs]_vars

\* A control connection is reading frames while one request is pending and
\* another was already answered: an OUTPUT repeating the answered input_id
\* finds no entry.
C17_Witness ==
    \E c \in CtlConns : \E d \in InConns :
        /\ ctl_pc[c] = "recv" /\ ctl_open[c]
        /\ pending_inputs # EmptyDict
        /\ \E f \in Outputs(d) : f.input_id \notin DOMAIN pending_inputs

\* C18 (as claimed): a HEARTBEAT whose address field differs from the
\* address bound to its connection is answered with an ERROR and changes
\* no record.
C18_ForeignHeartbeatDropped ==
    [][\A c \in CtlConns : \A m \in HeartbeatFrames :
        (/\ agent_address[c] # NoAddr
         /\ m.address # agent_address[c]
         /\ CtlRecvHeartbeat(c, m))
        => (agents' = agents /\ ctl_pc'[c] = "sendError")]_vars

\* C19 (as claimed): a control connection cannot read a frame of unknown
\* type and go back to reading frames without an ERROR being sent.
C19_UnknownTypeAnsweredError ==
    \A c \in CtlConns :
        (ctl_pc[c] = "recv" /\ ctl_open[c])
        => ~ENABLED (CtlRecvOther(c) /\ ctl_pc'[c] = "recv"
                     /\ UNCHANGED outside_vars)

\* C20 (as claimed): the handling of a readable frame, here the forward of
\* an OUTPUT on an open control connection, never ends the connection's
\* control task.
C20_FrameHandlingKeepsConnection ==
    [][\A c \in CtlConns :
        (ctl_pc[c] = "forward" /\ ctl_open[c]) => ctl_pc'[c] # "done"]_vars

\* ---------------------------------------------------------------- C21
\* input_endpoint's three refusals of a first frame
Rejected(message) ==
    \/ message.type # "INPUT"
    \/ message.input_id = NoId \/ message.to = NoAddr \/ message.prompt = NoId
    \/ message.to \notin DOMAIN agents
RejectionErrors ==
    {"Expected INPUT message", "Missing required fields",
     "Agent not found or offline"}

\* C21: a dispatch exchange whose first frame is refused (not an INPUT, a
\* missing input_id/to/prompt, or a target with no registry entry) is
\* answered with one of the three ERRORs and returned from; the refusal and
\* the ERROR send store no pending entry, leave the registry as it is and
\* deliver no frame to any agent.
C21_RejectedExchangeLeavesNoTrace ==
    [][\A d \in InConns :
        /\ (in_pc[d] = "recv" /\ in_pc'[d] # "recv") =>
              \A m \in InputFrames(d) :
                 (Rejected(m) /\ InRecv(d, m)) =>
                    /\ in_pc'[d] = "sendError"
                    /\ in_local'[d].error \in RejectionErrors
                    /\ ~in_local'[d].forwarded
                    /\ pending_inputs' = pending_inputs
                    /\ agents' = agents
                    /\ ctl_rx' = ctl_rx
        /\ (/\ in_pc[d] = "sendError"
            /\ in_local[d].error \in RejectionErrors
            /\ in_pc'[d] # "sendError") =>
              /\ in_pc'[d] = "done"
              /\ ~in_open'[d]
              /\ in_rx'[d] = IF in_open[d]
                             THEN Append(in_rx[d], ErrorFrame(in_local[d].error))
                             ELSE in_rx[d]
              /\ ~in_local'[d].forwarded
              /\ pending_inputs' = pending_inputs
              /\ agents' = agents
              /\ ctl_rx' = ctl_rx]_vars

\* a caller asked for an address nobody holds, got the ERROR and was closed
C21_Witness ==
    \E d \in InConns :
        /\ in_pc[d] = "done"
        /\ in_rx[d] = <<ErrorFrame("Agent not found or offline")>>
        /\ pending_inputs = EmptyDict
        /\ agents = EmptyDict

\* ---------------------------------------------------------------- C22
\* the caller d waits for the answer of an agent whose control connection
\* is closed; its input_id is in use by no other dispatch task
AgentGone(d) ==
    /\ in_pc[d] = "poll"
    /\ in_local[d].input_id \in DOMAIN pending_inputs
    /\ pending_inputs[in_local[d].input_id].websocket = d
    /\ \A e \in InConns \ {d} : in_local[e].input_id # in_local[d].input_id
    /\ ~ctl_open[in_local[d].agent_ws]

\* some control task completes the forward of an OUTPUT carrying input_id
OutputHandled(input_id) ==
    \E c \in CtlConns :
        /\ ctl_pc[c] = "forward"
        /\ ctl_local[c].input_id = input_id
        /\ ctl_pc'[c] # "forward"

\* C22: after the target agent's control connection has closed with the
\* forwarded INPUT unanswered, and as long as no OUTPUT carrying the
\* input_id is handled and no other caller uses it, the pending entry stays and the dispatch task keeps
\* polling without sending anything, until more than 300 s have passed since
\* the forward; then the entry is deleted and ERROR "Request timed out" is
\* sent, which a caller still connected receives.
C22_PendingOutlivesAgent ==
    [][\A d \in InConns :
        /\ (AgentGone(d) /\ ~OutputHandled(in_local[d].input_id)) =>
              \/ /\ in_pc'[d] = "poll"
                 /\ in_local[d].input_id \in DOMAIN pending_inputs'
                 /\ in_rx'[d] = in_rx[d]
              \/ /\ now - in_local[d].start_time > timeout
                 /\ in_pc'[d] = "sendError"
                 /\ in_local'[d].error = "Request timed out"
                 /\ in_local[d].input_id \notin DOMAIN pending_inputs'
                 /\ in_rx'[d] = in_rx[d]
        /\ (/\ in_pc[d] = "sendError"
            /\ in_local[d].error = "Request timed out"
            /\ in_open[d]
            /\ in_pc'[d] # "sendError") =>
              in_rx'[d] = Append(in_rx[d], ErrorFrame("Request timed out"))]_vars

\* the deadline passed for a connected caller whose agent had gone
C22_Witness ==
    \E d \in InConns :
        /\ in_pc[d] = "sendError"
        /\ in_local[d].error = "Request timed out"
        /\ in_open[d]
        /\ ~ctl_open[in_local[d].agent_ws]
        /\ ctl_pc[in_local[d].agent_ws] = "done"

\* ---------------------------------------------------------------- C23
\* C23 (as claimed): a call whose INPUT reached the agent and whose timeout
\* T ran out before the handler returned has received the relay's ERROR
\* (timeout) frame, and its input_id is no longer pending, so that the
\* agent's late OUTPUT meets no entry and is dropped.
C23_CallerTimeoutAnswered ==
    \A d \in InConns :
        (/\ call[d].pc = "done"
         /\ call[d].outcome.kind = "TimeoutError"
         /\ in_local[d].forwarded
         /\ srv.pc = "handle" /\ srv.task = InputOf(d))
        => /\ ErrorFrame("Request timed out") \in Frames(d)
           /\ call[d].input_id \notin DOMAIN pending_inputs

\* ---------------------------------------------------------------- C24
\* asyncio runs every task that is ready: no handler step of the broker, of
\* the serving loop or of the calling client is postponed for ever.  The
\* handler's return is the claim's own premise.  Closures, a raising
\* handler and the passing of time are not forced.
Scheduling ==
    /\ \A c \in CtlConns :
          /\ WF_vars(CtlForwardDone(c) /\ UNCHANGED outside_vars)
          /\ WF_vars(CtlSendErrorDone(c) /\ UNCHANGED outside_vars)
    /\ \A d \in InConns :
          /\ WF_vars(InForwardDone(d) /\ UNCHANGED outside_vars)
          /\ WF_vars(InPoll(d) /\ UNCHANGED outside_vars)
          /\ WF_vars(ServeRecvInput(d) /\ UNCHANGED <<agents_order, agent_rx, call, keys>>)
          /\ WF_vars(CallRecv(d) /\ UNCHANGED <<agents_order, agent_rx, srv, keys>>)
    /\ WF_vars(ServeSendOutput /\ UNCHANGED <<agents_order, agent_rx, call, keys>>)

SpecLive == SpecCall /\ Scheduling

\* the call of d ended with the handler's result, one OUTPUT was delivered
\* and the request is no longer pending
Answered(d) ==
    /\ call[d].pc = "done"
    /\ call[d].outcome = [kind |-> "return", value |-> "r"]
    /\ \A f \in Frames(d) : f.type = "OUTPUT" /\ f.input_id = call[d].input_id
    /\ Len(in_rx[d]) = 1
    /\ call[d].input_id \notin DOMAIN pending_inputs

\* the premises of the happy path no longer hold: the agent's connection
\* closed or its handler raised, or the caller did not stay connected until
\* the answer (connection lost, or the caller's own timeout)
Unhappy(d) ==
    \/ \E c \in CtlConns : srv.ws = c /\ ~ctl_open[c]
    \/ srv.pc \in {"crashed", "closed"}
    \/ call[d].pc = "done" /\ call[d].outcome.kind # "return"
    \/ call[d].pc # "done" /\ ~in_open[d]

\* C24: once the broker has accepted a caller's INPUT for the serving agent
\* (the agent is registered), then, unless the agent's connection closes or
\* the caller does not stay connected, the caller's call eventually returns
\* the handler's result r from exactly one OUTPUT carrying its own input_id,
\* and the pending table holds no entry for that input_id.
C24_HappyPath ==
    \A d \in InConns :
        (call[d].pc = "wait" /\ in_pc[d] = "forward")
        ~> (Answered(d) \/ Unhappy(d))

\* a call was answered while agent and caller stayed connected
C24_Witness ==
    \E d \in InConns :
        /\ Answered(d)
        /\ ctl_open[srv.ws]
        /\ srv.sent = <<call[d].input_id>>

\* ---------------------------------------------------------------- C25
\* the input_ids of the INPUT frames the serving loop has read, in order
ReceivedIds == [k \in 1..Len(srv.received) |-> srv.received[k].input_id]

C26_HeartbeatEveryInterval ==
    (srv.pc \in {"wait", "handle"} /\ ctl_open[srv.ws])
    => now - srv.last_heartbeat <= heartbeat_interval

\* ---------------------------------------------------------------- C27
\* C27: the first frame read decides the call: an OUTPUT carrying the
\* call's own input_id makes it return that frame's result; an ERROR frame
\* fails it with the frame's error; every other frame, an OUTPUT with
\* another input_id among them, fails it, and nothing of such a frame is
\* returned as a result.
C27_FirstFrameDecides ==
    \A d \in InConns :
        call[d].pc = "done" =>
            LET f == in_rx[d][1]
                o == call[d].outcome
                own == /\ "type" \in DOMAIN f /\ f.type = "OUTPUT"
                       /\ "input_id" \in DOMAIN f
                       /\ f.input_id = call[d].input_id
                err == "type" \in DOMAIN f /\ f.type = "ERROR"
            IN  /\ own => /\ o.kind = "return"
                          /\ o.value = IF "result" \in DOMAIN f
                                       THEN f.result ELSE ""
                /\ err => /\ o.kind = "ConnectionError"
                          /\ o.value = IF "error" \in DOMAIN f
                                       THEN f.error ELSE ""
                /\ (~own /\ ~err) => /\ o.kind = "ConnectionError"
                                     /\ o.value = "Unexpected response"
                /\ ~in_open[d]

\* a call failed on an OUTPUT that carried a result under another input_id
C27_Witness ==
    \E d \in InConns :
        /\ call[d].pc = "done"
        /\ in_rx[d][1] = [type |-> "OUTPUT", input_id |-> "i2", result |-> "r"]
        /\ call[d].input_id = "i1"
        /\ call[d].outcome.kind = "ConnectionError"

\* ---------------------------------------------------------------- C28
\* C28 (as claimed): the records of a FIND reply are in order of recency of
\* announce, the most recently announced first, and no matching record that
\* was left out was announced more recently than one that is returned.
C28_FindByRecency ==
    \A q \in Queries :
        LET r == find(q).agents
            all == find_matching(q)
        IN  /\ \A i, j \in 1..Len(r) :
                  i < j => r[i].last_seen >= r[j].last_seen
            /\ \A i \in 1..Len(r) : \A j \in 1..Len(all) :
                  (\A k \in 1..Len(r) : r[k] # all[j])
                  => r[i].last_seen >= all[j].last_seen

\* ---------------------------------------------------------------- C29
\* the error the specification names for a key file that is not 32 bytes
CorruptKey == [kind |-> "error", error |-> "CorruptKey"]

\* C29 (as claimed): with the libraries installed, Load returns None only
\* when the key file is missing; when agent.key exists and is not exactly
\* 32 bytes, Load fails with CorruptKey and does not return None.
C29_LoadNoneOnlyWhenMissing ==
    [][\A dir \in Dirs :
        (keys.installed /\ KeysLoad(dir)) =>
            /\ keys'.loaded = None => ~keys.file[dir].exists
            /\ (keys.file[dir].exists /\ ~IsKeySized(keys.file[dir].bytes))
               => keys'.loaded = CorruptKey]_vars

\* ---------------------------------------------------------------- C30
\* C30: whatever a directory held before, loading it right after a
\* generated identity was saved into it gives an identity with the same
\* address, whose signing key makes signatures that verify against that
\* address.
C30_SaveLoadRoundTrip ==
    [][\A dir \in Dirs :
        KeysSave(dir) =>
            LET I == keys.generated
                L == load(keys'.installed, keys'.file[dir])
            IN  /\ L # None
                /\ L.address = I.address
                /\ verify(I.address, "hello", sign(L, "hello"))
                /\ ~verify(I.address, "hello", sign(L, "bye"))]_vars

\* an identity was saved over a key file of the wrong size and loaded back
C30_Witness ==
    \E dir \in Dirs :
        /\ keys.generated # Unset
        /\ keys.loaded # Unset /\ keys.loaded # None
        /\ keys.loaded.address = keys.generated.address
        /\ keys.file[dir].bytes = keys.generated.signing_key
        /\ keys.file[dir].warning
        /\ \E other \in Dirs \ {dir} : keys.file[other].exists
                                    /\ ~IsKeySized(keys.file[other].bytes)

\* ---------------------------------------------------------------- C31
\* C31: recovering from the mnemonic of the generated identity gives an
\* identity with the same address, and the signatures the recovered
\* identity makes verify against the generated identity's address (and only
\* over the message that was signed).
C31_RecoverRoundTrip ==
    [][\A p \in Phrases :
        (/\ keys.generated # Unset
         /\ p = keys.generated.seed_phrase
         /\ KeysRecover(p))
        => LET I == keys.generated
               R == keys'.recovered
           IN  /\ R.kind = "identity"
               /\ R.address = I.address
               /\ verify(I.address, "hello", sign(R, "hello"))
               /\ ~verify(I.address, "hello", sign(R, "bye"))]_vars

\* both identities in memory: the one generated with mnemonic p1 and the
\* one recovered from that mnemonic
C31_Witness ==
    /\ keys.generated # Unset
    /\ keys.generated.seed_phrase = "p1"
    /\ keys.recovered # Unset
    /\ keys.recovered.kind = "identity"
    /\ keys.recovered.signing_key = keys.generated.signing_key
    /\ keys.recovered.address = Addr0x("K1")

\* ---------------------------------------------------------------- C32
\* the identities generate and recover can produce
Identities ==
    { generate(p) : p \in Phrases } \cup { recover(p) : p \in Phrases }

\* C32: every call of verify returns (it never raises); called with the
\* address of identity B, a message m and the signature identity A made
\* over m, it returns True exactly when A and B hold the same key; called
\* with a malformed address or a malformed signature it returns False.
C32_VerifyExactlyOwnSignature ==
    keys.verified # Unset =>
        LET v == keys.verified IN
        /\ v.outcome.kind = "return"
        /\ \A A, B \in Identities : \A m \in Messages :
              (v.address = B.address /\ v.message = m
                  /\ v.signature = sign(A, m))
              => (v.outcome.value <=> A.signing_key = B.signing_key)
        /\ (v.address \in MalformedAddrs \/ v.signature \in MalformedSignatures)
              => ~v.outcome.value

\* verify was called with the address of the recovered identity and a
\* signature of the generated one, the two being different identities
C32_Witness ==
    /\ keys.verified # Unset
    /\ keys.generated # Unset /\ keys.recovered \notin {Unset, ValueError}
    /\ keys.generated.address # keys.recovered.address
    /\ keys.verified.address = keys.recovered.address
    /\ keys.verified.signature = sign(keys.generated, keys.verified.message)
    /\ keys.verified.outcome = Return(FALSE)

\* ---------------------------------------------------------------- C33
\* C33 (as claimed): when a control connection's handler ends, it removes
\* only the connection's own registration: a record whose handle is another
\* connection, still open, stays in the registry unchanged.
C33_CloseRemovesOwnRecordOnly ==
    [][\A c \in CtlConns :
        (ctl_pc[c] # "done" /\ ctl_pc'[c] = "done") =>
            \A a \in DOMAIN agents :
                (agents[a].websocket # c /\ ctl_open[agents[a].websocket])
                => (a \in DOMAIN agents' /\ agents'[a] = agents[a])]_vars

\* ---------------------------------------------------------------- C34
\* the send of the INPUT to the target's control connection raises: the
\* connection closed after the lookup
ForwardFails(d) ==
    /\ in_pc[d] = "forward"
    /\ ~ctl_open[in_local[d].agent_ws]
    /\ in_pc'[d] # "forward"

\* C34: when forwarding the INPUT fails, the table holds no entry for the
\* exchange's input_id afterwards and no other entry is touched; the
\* dispatch task goes on to send an ERROR, "Failed to reach agent" whenever
\* the entry it inserted was still in the table, and the ERROR is delivered
\* to a caller that is still connected; the INPUT has reached no agent.
\* At all times every pending entry belongs to a dispatch task that is
\* forwarding its INPUT or has delivered it.
C34_ForwardFailureCleansUp ==
    [][\A d \in InConns :
        LET input_id == in_local[d].input_id IN
        /\ ForwardFails(d) =>
              /\ input_id \notin DOMAIN pending_inputs'
              /\ \A i \in DOMAIN pending_inputs \ {input_id} :
                    i \in DOMAIN pending_inputs'
                    /\ pending_inputs'[i] = pending_inputs[i]
              /\ in_pc'[d] = "sendError"
              /\ input_id \in DOMAIN pending_inputs
                    => in_local'[d].error = "Failed to reach agent"
              /\ ~in_local'[d].forwarded
              /\ in_rx' = in_rx
        /\ (/\ in_pc[d] = "sendError"
            /\ in_local[d].error = "Failed to reach agent"
            /\ in_open[d]
            /\ in_pc'[d] # "sendError") =>
              /\ in_rx'[d] = Append(in_rx[d], ErrorFrame("Failed to reach agent"))
              /\ in_pc'[d] = "done"
        /\ \A i \in DOMAIN pending_inputs' :
              LET e == pending_inputs'[i].websocket IN
              /\ in_local'[e].input_id = i
              /\ in_pc'[e] = "forward" \/ in_local'[e].forwarded]_vars

\* the target's connection closed between lookup and forward; the caller
\* has its ERROR and nothing is pending
C34_Witness ==
    \E d \in InConns :
        /\ in_pc[d] = "done"
        /\ in_rx[d] = <<ErrorFrame("Failed to reach agent")>>
        /\ pending_inputs = EmptyDict
        /\ \E a \in DOMAIN agents : ~ctl_open[agents[a].websocket]

\* ---------------------------------------------------------------- C35
\* the dispatch task of d is suspended in the send of the Timeout ERROR
SendingTimeout(d) ==
    in_pc[d] = "sendError" /\ in_local[d].error = "Request timed out"

\* C35: the step in which a polling dispatch task gives up at its deadline
\* deletes the entry of its input_id and only then starts the send of ERROR
\* "Request timed out": when the send starts the table has no entry for the
\* input_id and nothing has been sent yet; while the send is under way and
\* when the ERROR is delivered, no pending entry names this caller, so that
\* no OUTPUT read from then on is forwarded to it.
C35_DeadlineDeletesBeforeError ==
    [][\A d \in InConns :
        /\ (in_pc[d] = "poll" /\ SendingTimeout(d)') =>
              /\ in_local[d].input_id \in DOMAIN pending_inputs
              /\ in_local[d].input_id \notin DOMAIN pending_inputs'
              /\ in_rx' = in_rx
        /\ SendingTimeout(d) =>
              /\ \A i \in DOMAIN pending_inputs : pending_inputs[i].websocket # d
              /\ \A i \in DOMAIN pending_inputs' : pending_inputs'[i].websocket # d
        /\ (SendingTimeout(d) /\ in_open[d] /\ in_pc'[d] # "sendError") =>
              in_rx'[d] = Append(in_rx[d], ErrorFrame("Request timed out"))]_vars

\* the deadline passed for a connected caller whose agent is connected too
\* and never answered: the entry is gone, the ERROR is being sent
C35_Witness ==
    \E d \in InConns :
        /\ SendingTimeout(d)
        /\ in_open[d]
        /\ in_rx[d] = <<>>
        /\ ctl_open[in_local[d].agent_ws]
        /\ in_local[d].input_id \notin DOMAIN pending_inputs

\* ---------------------------------------------------------------- C36
\* asyncio runs every task that is ready, a send completes or raises, and
\* time passes: the forwards, the poll loop's turns and the clock are not
\* postponed for ever.  No frame and no closure is forced.
PendingScheduling ==
    /\ \A c \in CtlConns : WF_vars(CtlForwardDone(c) /\ UNCHANGED outside_vars)
    /\ \A d \in InConns :
          /\ WF_vars(InForwardDone(d) /\ UNCHANGED outside_vars)
          /\ WF_vars(InPoll(d) /\ UNCHANGED outside_vars)
    /\ WF_vars(TickFree /\ UNCHANGED outside_vars)

SpecPendingLive == SpecPending /\ PendingScheduling

\* the entry of input_id belongs to a polling dispatch task whose deadline
\* falls before the clock stops
DeadlineInReach(input_id) ==
    /\ input_id \in DOMAIN pending_inputs
    /\ LET d == pending_inputs[input_id].websocket IN
          /\ in_pc[d] = "poll"
          /\ in_local[d].start_time + timeout < MaxTime

\* C36: no pending entry stays in the table for ever.  The forward of an
\* accepted INPUT ends (after which the entry is deleted or its task
\* polls), and the entry of a polling task is eventually removed: by the
\* handling of an OUTPUT carrying its input_id, the caller connected or not,
\* or at the latest when the deadline has passed, also for a caller that has
\* disconnected.
C36_PendingEventuallyRemoved ==
    /\ \A i \in InputIds :
          DeadlineInReach(i) ~> (i \notin DOMAIN pending_inputs)
    /\ \A d \in InConns :
          (in_pc[d] = "forward") ~> (in_pc[d] # "forward")

\* the caller disconnected, no OUTPUT came, and the deadline removed the
\* entry; the agent is still connected and registered
C36_Witness ==
    \E d \in InConns :
        /\ SendingTimeout(d)
        /\ ~in_open[d]
        /\ pending_inputs = EmptyDict
        /\ ctl_open[in_local[d].agent_ws]
        /\ ServeAddr \in DOMAIN agents

\* ---------------------------------------------------------------- C37
\* the frames delivered for the INPUT of d, on any control connection
DeliveredFor(d, rx) ==
    { <<c, k>> \in CtlConns \X (1..Cardinality(InConns)) :
        k <= Len(rx[c]) /\ rx[c][k].ws = d }

\* C37: when an INPUT is accepted, the handle the dispatch task will send on
\* is the one in the registry record for `to` at that moment, and nothing
\* is delivered yet; whatever the registry becomes afterwards, the frames
\* delivered for this INPUT on all control connections are at most one, on
\* that handle, carrying the caller's input_id and prompt; it is exactly
\* one once the send has completed, and none after a send that failed.
C37_RoutedOnceToRegisteredHandle ==
    [][\A d \in InConns :
        /\ (in_pc[d] = "recv" /\ in_pc'[d] = "forward") =>
              \A m \in RoutedInputs(d) :
                 InRecv(d, m) =>
                    /\ m.to \in DOMAIN agents
                    /\ in_local'[d].agent_ws = agents[m.to].websocket
                    /\ in_local'[d].input_id = m.input_id
                    /\ in_local'[d].prompt = m.prompt
                    /\ DeliveredFor(d, agent_rx') = {}
        /\ in_pc'[d] = "forward" => DeliveredFor(d, agent_rx') = {}
        /\ (in_pc[d] = "forward" /\ in_pc'[d] # "forward") =>
              IF ctl_open[in_local[d].agent_ws]
              THEN /\ Cardinality(DeliveredFor(d, agent_rx')) = 1
                   /\ \A ck \in DeliveredFor(d, agent_rx') :
                        LET f == agent_rx'[ck[1]][ck[2]] IN
                        /\ ck[1] = in_local[d].agent_ws
                        /\ f.type = "INPUT"
                        /\ f.input_id = in_local[d].input_id
                        /\ f.prompt = in_local[d].prompt
              ELSE DeliveredFor(d, agent_rx') = {}
        /\ in_pc[d] # "forward" =>
              DeliveredFor(d, agent_rx') = DeliveredFor(d, agent_rx)]_vars

\* two agents on two connections; the INPUT for one of them, with the
\* second prompt, lies on that agent's socket and nothing on the other's
C37_Witness ==
    \E d \in InConns : \E c, e \in CtlConns :
        /\ c # e
        /\ in_local[d].forwarded /\ in_local[d].agent_ws = c
        /\ Len(agent_rx[c]) = 1
        /\ agent_rx[c][1].ws = d /\ agent_rx[c][1].prompt = "ho"
        /\ agent_rx[e] = <<>>
        /\ ctl_open[e] /\ agent_address[e] \in Addrs
        /\ agent_address[e] # agent_address[c]

\* ---------------------------------------------------------------- C38
\* C38 (as claimed): Agent.serve writes agent.key only when the directory
\* has no agent.key: a key file that exists is left as it is, whatever it
\* holds.
C38_ServeKeepsExistingKey ==
    [][\A dir \in Dirs : \A p \in Phrases :
        (KeysServe(dir, p) /\ keys.file[dir].exists)
        => keys'.file[dir].bytes = keys.file[dir].bytes]_vars

\* ---------------------------------------------------------------- C39
\* the registry record for the frame's address was written by this very
\* frame (same fields, same signature), accepted on another connection
AcceptedElsewhere(message, c) ==
    /\ message.address \in DOMAIN agents
    /\ agents[message.address].websocket # c
    /\ agents[message.address].signature = message.signature
    /\ agents[message.address].summary = message.summary
    /\ agents[message.address].last_announce = message.timestamp

\* C39 (as claimed): an ANNOUNCE frame the broker has accepted on one
\* connection, sent again unchanged on a different connection, is not
\* accepted there: it is answered with an ERROR, the registry is left as it
\* is and the address is not bound to the replaying connection.
C39_ReplayedAnnounceRejected ==
    [][\A c \in CtlConns :
        (ctl_pc[c] = "recv" /\ ctl_open[c]) =>
            \A m \in AnnounceFrames :
                (AcceptedElsewhere(m, c) /\ CtlRecvAnnounce(c, m))
                => /\ agents' = agents
                   /\ agent_address'[c] = agent_address[c]
                   /\ ctl_pc'[c] = "sendError"]_vars

====
